---- MODULE Spec2Model ----
(***************************************************************************)
(* Sandbox lifecycle of dcsandbox: the on-disk store of sandbox records,   *)
(* the container runtime as the lifecycle engine drives it, the MCP port   *)
(* allocator, the two SandboxManager implementations (the throwing one of  *)
(* lib/sandbox-manager.ts and the Result-returning one) and the CLI        *)
(* commands built on the throwing one.                                     *)
(***************************************************************************)
EXTENDS Integers, FiniteSets, Sequences, TLC

(* ------------------------------ bounds -------------------------------- *)
\* number of sandbox ids; the highest one stands for an alphanumeric id that a
\* library caller passes in config.id, the others for the `sandbox-<nanoid>`
\* ids that createCommand generates
MaxIds == 2
\* size of the modelled port range (the code's range is 50000..60000)
MaxPorts == 2

(* --------------------------- program constants ------------------------ *)
PortMin == 50000
\* mcpPort?: number is absent (undefined, falsy)
NoPort == 0
\* containerId?: string is absent
NoContainer == 0

Ids == 1..MaxIds
LibIds == {MaxIds}
CliIds == Ids \ LibIds
Names == {"s1", "S1"}
PortRange == PortMin..(PortMin + MaxPorts - 1)

(* ------------------------------- state -------------------------------- *)
VARIABLES
  impl,         \* class of the live manager instance: "throwing" | "result"
  records,      \* readable <sandboxes>/<id>/config.json files, by id
  dirs,         \* ids whose <sandboxes>/<id>/ directory exists
  containers,   \* runtime state of the container dcsandbox-<id>
  activePorts,  \* MCPProxy.activePorts of the live instance
  proxies,      \* keys of MCPProxy.proxies of the live instance
  last,         \* the last operation, its target and its outcome
  portRange,    \* MCPProxy.portRange, as the set of its ports
  wsOpen,       \* MCPProxyInstance: the client sockets that are connected
  frame,        \* per socket, the last frame its 'message' handler received
  sent,         \* per socket, the last message written with ws.send
  step,         \* per concurrent call, the await it has reached
  call,         \* per concurrent call, the method called
  loc,          \* per concurrent call, its local variables
  ret,          \* per concurrent call, how it ended
  origin,       \* the store when the concurrent calls were issued
  file,         \* config.json of one sandbox, as the file system holds it
  writer,       \* the fs.writeFile in progress on config.json, if any
  seen,         \* what the last read of config.json returned
  elapsed,      \* minutes since the sandbox was started
  timeout,      \* --timeout of the create that made the sandbox
  persist,      \* --persist of the create that made the sandbox
  input,        \* the arguments of the function under examination
  output,       \* what the function returned for them
  mcpProxies,   \* MCPProxy.proxies: per sandbox id, the instance it maps to
  instances,    \* the MCPProxyInstance objects that startProxy has made
  children      \* the child processes that startMCPServer has spawned

mainVars == <<impl, records, dirs, containers, activePorts, proxies, last>>
proxyVars == <<wsOpen, frame, sent>>
concVars == <<step, call, loc, ret, origin>>
fileVars == <<file, writer, seen>>
lifeVars == <<elapsed, timeout, persist>>
pureVars == <<input, output>>
brokerVars == <<mcpProxies, instances, children>>
vars == <<mainVars, portRange, proxyVars, concVars, fileVars, lifeVars, pureVars,
          brokerVars>>

\* the part of the state the manager methods read and write
Store == [records |-> records, dirs |-> dirs,
          containers |-> containers, activePorts |-> activePorts,
          proxies |-> proxies]

NullConfig == [status |-> "none", name |-> "", containerId |-> NoContainer,
               mcpPort |-> NoPort]

\* the components a specification leaves alone, at rest
Procs == {"p", "q"}
NoLocals == [config |-> NullConfig, inner |-> NullConfig, port |-> NoPort]
EmptyStore == [records |-> <<>>, dirs |-> {}, containers |-> [i \in Ids |-> "none"],
               activePorts |-> {}, proxies |-> {}]
ConcIdle ==
  /\ step = [p \in Procs |-> "done"]
  /\ call = [p \in Procs |-> "-"]
  /\ loc = [p \in Procs |-> NoLocals]
  /\ ret = [p \in Procs |-> "-"]
  /\ origin = EmptyStore

NoFile == [kind |-> "absent", config |-> NullConfig]
NoWriter == [busy |-> FALSE, old |-> NoFile, new |-> NullConfig]
FileIdle ==
  /\ file = NoFile
  /\ writer = NoWriter
  /\ seen = [found |-> FALSE, config |-> NullConfig]

LifeIdle ==
  /\ elapsed = 0
  /\ timeout = 0
  /\ persist = FALSE

NoInput == [of |-> "none"]
NoOutput == [of |-> "none"]
\* bounds of the broker's objects
MaxInsts == 2
MaxKids == 3
Insts == 1..MaxInsts
Kids == 1..MaxKids
NoInst == 0
NoChild == 0
ServerNames == {"fs", "git"}
\* an MCPProxyInstance that `new` has not made yet
Unmade ==
  [state |-> "unmade", sandboxId |-> 0, port |-> NoPort, wss |-> "null",
   mcpServers |-> [n \in ServerNames |-> NoChild]]
\* a child process that spawn has not made yet
Unborn ==
  [state |-> "unborn", name |-> "fs", inst |-> NoInst, signal |-> "none",
   handlesTerm |-> FALSE]
BrokerIdle ==
  /\ mcpProxies = [s \in Ids |-> NoInst]
  /\ instances = [i \in Insts |-> Unmade]
  /\ children = [k \in Kids |-> Unborn]

PureIdle ==
  /\ input = NoInput
  /\ output = NoOutput

\* id matches Joi.string().alphanum(): ids with the `sandbox-` prefix do not
IsAlnum(id) == id \in LibIds

(* --------------------------- port allocator --------------------------- *)
MinOf(S) == CHOOSE x \in S : \A y \in S : x <= y

\* an allocator that hands the port out without recording it
allocatePortUnrecorded(ports) ==
  LET free == portRange \ ports IN
  IF free # {}
    THEN [ok |-> TRUE, port |-> MinOf(free), ports |-> ports]
    ELSE [ok |-> FALSE, port |-> NoPort, ports |-> ports]

allocatePort(ports) ==
  LET free == portRange \ ports IN
  IF free # {}
    THEN [ok |-> TRUE, port |-> MinOf(free), ports |-> ports \cup {MinOf(free)}]
    ELSE [ok |-> FALSE, port |-> NoPort, ports |-> ports]

releasePort(ports, port) == ports \ {port}

(* -------------------------- container runtime ------------------------- *)
\* a container is "none" (absent), "idle" (created or exited) or "running"
\* rt = FALSE: the daemon rejects the call whatever the container's state
dockerCreate(cs, c, rt) ==
  IF rt /\ cs[c] = "none"
    THEN [ok |-> TRUE, cs |-> [cs EXCEPT ![c] = "idle"]]
    ELSE [ok |-> FALSE, cs |-> cs]

\* 304 "container already started" and 404 are errors in dockerode
dockerStart(cs, c, rt) ==
  IF rt /\ cs[c] = "idle"
    THEN [ok |-> TRUE, cs |-> [cs EXCEPT ![c] = "running"]]
    ELSE [ok |-> FALSE, cs |-> cs]

\* 304 "container already stopped" and 404 are errors in dockerode
dockerStop(cs, c, rt) ==
  IF rt /\ cs[c] = "running"
    THEN [ok |-> TRUE, cs |-> [cs EXCEPT ![c] = "idle"]]
    ELSE [ok |-> FALSE, cs |-> cs]

dockerRemove(cs, c, rt) ==
  IF rt /\ cs[c] # "none"
    THEN [ok |-> TRUE, cs |-> [cs EXCEPT ![c] = "none"]]
    ELSE [ok |-> FALSE, cs |-> cs]

(* -------------------------------- store ------------------------------- *)
getSandbox(s, id) ==
  IF id \in DOMAIN s.records
    THEN [found |-> TRUE, config |-> s.records[id]]
    ELSE [found |-> FALSE, config |-> NullConfig]

\* wok = FALSE: fs.writeFile rejects (the file keeps its previous content)
saveSandboxConfig(s, id, config, wok) ==
  IF id \notin s.dirs \/ ~wok
    THEN [ok |-> FALSE, s |-> s]
    ELSE [ok |-> TRUE, s |-> [s EXCEPT !.records = (id :> config) @@ s.records]]

\* fs.rm(dir, {recursive, force}): removes the tree, or fails leaving the
\* directory with or without its config.json
RmOutcomes == {"ok", "failKept", "failPartial"}

rmSandboxDir(s, id, r) ==
  IF r = "failKept" /\ id \in s.dirs
    THEN s
  ELSE IF r = "failPartial" /\ id \in s.dirs
    THEN [s EXCEPT !.records = [i \in DOMAIN s.records \ {id} |-> s.records[i]]]
    ELSE [s EXCEPT !.records = [i \in DOMAIN s.records \ {id} |-> s.records[i]],
                   !.dirs = s.dirs \ {id}]

(* ------------------- SandboxManager (throwing) ------------------------ *)
\* a record built from the new fields alone, without the spread of config
runningConfigAfresh(config, mcpPort) ==
  [NullConfig EXCEPT !.status = "running", !.mcpPort = mcpPort]

\* { ...config, status: 'running', mcpPort }
runningConfig(config, mcpPort) ==
  [config EXCEPT !.status = "running", !.mcpPort = mcpPort]

stoppedConfigKeepsPort(config) == [config EXCEPT !.status = "stopped"]

\* { ...config, status: 'stopped', mcpPort: undefined }
stoppedConfig(config) ==
  [config EXCEPT !.status = "stopped", !.mcpPort = NoPort]

\* f names the external call that fails during the operation ("none": no
\* call fails); an operation ignores the faults of calls it does not make
createSandbox(s, id, name, f) ==
  IF f = "mkdir" THEN [s |-> s, out |-> "IO_ERROR"]
  ELSE LET s1 == [s EXCEPT !.dirs = s.dirs \cup {id}] IN
  IF f = "workspace" THEN [s |-> s1, out |-> "IO_ERROR"]
  ELSE IF f = "build" THEN [s |-> s1, out |-> "BUILD_FAILED"]
  ELSE LET c == dockerCreate(s1.containers, id, f # "createContainer")
           s2 == [s1 EXCEPT !.containers = c.cs] IN
  IF ~c.ok THEN [s |-> s2, out |-> "RUNTIME_ERROR"]
  ELSE LET updatedConfig == [status |-> "stopped", name |-> name,
                             containerId |-> id, mcpPort |-> NoPort]
           w == saveSandboxConfig(s2, id, updatedConfig, f # "saveCreate") IN
  IF ~w.ok THEN [s |-> w.s, out |-> "IO_ERROR"]
  ELSE [s |-> w.s, out |-> "ok"]

startSandbox(s, id, f) ==
  LET g == getSandbox(s, id) IN
  IF ~g.found \/ g.config.containerId = NoContainer
    THEN [s |-> s, out |-> "NOT_FOUND"]
  ELSE LET c == dockerStart(s.containers, g.config.containerId, f # "startContainer")
           s1 == [s EXCEPT !.containers = c.cs] IN
  IF ~c.ok THEN [s |-> s1, out |-> "RUNTIME_ERROR"]
  ELSE LET a == allocatePort(s1.activePorts)
           s2 == [s1 EXCEPT !.activePorts = a.ports] IN
  IF ~a.ok THEN [s |-> s2, out |-> "PORT_EXHAUSTED"]
  ELSE LET updatedConfig == runningConfig(g.config, a.port)
           w == saveSandboxConfig(s2, id, updatedConfig, f # "saveStart") IN
  IF ~w.ok THEN [s |-> w.s, out |-> "IO_ERROR"]
  ELSE [s |-> w.s, out |-> "ok"]

stopSandbox(s, id, f) ==
  LET g == getSandbox(s, id) IN
  IF ~g.found \/ g.config.containerId = NoContainer
    THEN [s |-> s, out |-> "NOT_FOUND"]
  ELSE LET c == dockerStop(s.containers, g.config.containerId, f # "stopContainer")
           s1 == [s EXCEPT !.containers = c.cs] IN
  IF ~c.ok THEN [s |-> s1, out |-> "RUNTIME_ERROR"]
  ELSE LET s2 == IF g.config.mcpPort # NoPort
                   THEN [s1 EXCEPT !.activePorts = releasePort(s1.activePorts, g.config.mcpPort)]
                   ELSE s1
           updatedConfig == stoppedConfig(g.config)
           w == saveSandboxConfig(s2, id, updatedConfig, f # "saveStop") IN
  IF ~w.ok THEN [s |-> w.s, out |-> "IO_ERROR"]
  ELSE [s |-> w.s, out |-> "ok"]

\* f: fault of the embedded stop; rmv: container.remove succeeds; r: outcome
\* of removing the sandbox directory
removeSandbox(s, id, f, rmv, r) ==
  LET g == getSandbox(s, id) IN
  IF ~g.found THEN [s |-> s, out |-> "NOT_FOUND"]
  ELSE LET st == IF g.config.status = "running"
                   THEN stopSandbox(s, id, f)
                   ELSE [s |-> s, out |-> "ok"] IN
  IF st.out # "ok" THEN st
  ELSE LET d == IF g.config.containerId # NoContainer
                  THEN dockerRemove(st.s.containers, g.config.containerId, rmv)
                  ELSE [ok |-> TRUE, cs |-> st.s.containers]
           s1 == [st.s EXCEPT !.containers = d.cs] IN
       [s |-> rmSandboxDir(s1, id, r), out |-> "ok"]

setupMCP(s, id, f) ==
  LET g == getSandbox(s, id) IN
  IF ~g.found \/ g.config.mcpPort = NoPort THEN [s |-> s, out |-> "MCP_NOT_READY"]
  ELSE IF f = "proxy" THEN [s |-> s, out |-> "PROXY_ERROR"]
  ELSE [s |-> [s EXCEPT !.proxies = s.proxies \cup {id}], out |-> "ok"]

runPostCreateCommands(s, id, f) ==
  LET g == getSandbox(s, id) IN
  IF ~g.found \/ g.config.containerId = NoContainer
    THEN [s |-> s, out |-> "NOT_FOUND"]
  ELSE IF f = "post" THEN [s |-> s, out |-> "POST_CREATE_ERROR"]
  \* f = "postExit": the command ends with a non-zero status, which is not read
  ELSE [s |-> s, out |-> "ok"]

(* ---------------- SandboxManager (Result-returning) ------------------- *)
\* validateSandboxConfig: of the schema's rules only the id rule separates
\* the records of the model
validateSandboxConfig(id) == IsAlnum(id)

\* MCPProxy.allocatePort resolves to a number and MCPProxy.releasePort to
\* undefined; neither carries a `success` property
allocateResultSuccess == FALSE

releaseResultIsObject == FALSE

getSandboxR(s, id) ==
  IF id \notin DOMAIN s.records
    THEN [out |-> "ok", found |-> FALSE, config |-> NullConfig]
  ELSE IF ~validateSandboxConfig(id)
    THEN [out |-> "INVALID_STORED_CONFIG", found |-> FALSE, config |-> NullConfig]
    ELSE [out |-> "ok", found |-> TRUE, config |-> s.records[id]]

saveSandboxConfigR(s, id, config, wok) ==
  IF ~validateSandboxConfig(id)
    THEN [ok |-> FALSE, s |-> s, out |-> "VALIDATION_FAILED"]
    ELSE LET r == saveSandboxConfig(s, id, config, wok) IN
         [ok |-> r.ok, s |-> r.s,
          out |-> IF r.ok THEN "ok" ELSE "SAVE_CONFIG_FAILED"]

createSandboxR(s, id, name, f) ==
  IF ~validateSandboxConfig(id) THEN [s |-> s, out |-> "VALIDATION_FAILED"]
  ELSE IF f = "template" THEN [s |-> s, out |-> "TEMPLATE_VALIDATION_FAILED"]
  ELSE IF f = "mkdir" THEN [s |-> s, out |-> "CREATION_STEP_FAILED"]
  ELSE LET s1 == [s EXCEPT !.dirs = s.dirs \cup {id}] IN
  IF f = "workspace" THEN [s |-> s1, out |-> "WORKSPACE_SETUP_FAILED"]
  ELSE IF f = "assets" THEN [s |-> s1, out |-> "DOCKER_ASSETS_FAILED"]
  ELSE IF f = "build" THEN [s |-> s1, out |-> "BUILD_FAILED"]
  ELSE LET c == dockerCreate(s1.containers, id, f # "createContainer")
           s2 == [s1 EXCEPT !.containers = c.cs] IN
  IF ~c.ok THEN [s |-> s2, out |-> "CONTAINER_CREATE_FAILED"]
  ELSE LET updatedConfig == [status |-> "stopped", name |-> name,
                             containerId |-> id, mcpPort |-> NoPort]
           w == saveSandboxConfigR(s2, id, updatedConfig, f # "saveCreate") IN
       [s |-> w.s, out |-> w.out]

startSandboxR(s, id, f) ==
  LET g == getSandboxR(s, id) IN
  IF g.out # "ok" THEN [s |-> s, out |-> g.out]
  ELSE IF ~g.found THEN [s |-> s, out |-> "SANDBOX_NOT_FOUND"]
  ELSE IF g.config.containerId = NoContainer THEN [s |-> s, out |-> "NO_CONTAINER"]
  ELSE LET c == dockerStart(s.containers, g.config.containerId, f # "startContainer")
           s1 == [s EXCEPT !.containers = c.cs] IN
  IF ~c.ok THEN [s |-> s1, out |-> "START_FAILED"]
  ELSE LET a == allocatePort(s1.activePorts)
           s2 == [s1 EXCEPT !.activePorts = a.ports] IN
  IF ~a.ok THEN [s |-> s2, out |-> "START_FAILED"]
  ELSE IF ~allocateResultSuccess
    THEN LET d == dockerStop(s2.containers, g.config.containerId, f # "stopContainer") IN
         [s |-> [s2 EXCEPT !.containers = d.cs], out |-> "UNDEFINED_ERROR"]
  ELSE LET updatedConfig == runningConfig(g.config, a.port)
           w == saveSandboxConfigR(s2, id, updatedConfig, f # "saveStart") IN
       [s |-> w.s, out |-> w.out]

stopSandboxR(s, id, f) ==
  LET g == getSandboxR(s, id) IN
  IF g.out # "ok" THEN [s |-> s, out |-> g.out]
  ELSE IF ~g.found THEN [s |-> s, out |-> "SANDBOX_NOT_FOUND"]
  ELSE IF g.config.containerId = NoContainer THEN [s |-> s, out |-> "NO_CONTAINER"]
  ELSE LET c == dockerStop(s.containers, g.config.containerId, f # "stopContainer")
           s1 == [s EXCEPT !.containers = c.cs] IN
  IF ~c.ok THEN [s |-> s1, out |-> "STOP_FAILED"]
  ELSE LET s2 == IF g.config.mcpPort # NoPort
                   THEN [s1 EXCEPT !.activePorts = releasePort(s1.activePorts, g.config.mcpPort)]
                   ELSE s1 IN
  \* releaseResult.success on undefined is a TypeError, caught as STOP_FAILED
  IF g.config.mcpPort # NoPort /\ ~releaseResultIsObject
    THEN [s |-> s2, out |-> "STOP_FAILED"]
  ELSE LET updatedConfig == stoppedConfig(g.config)
           w == saveSandboxConfigR(s2, id, updatedConfig, f # "saveStop") IN
       [s |-> w.s, out |-> w.out]

performSandboxRemoval(s, id, f, rmv, r) ==
  LET g == getSandboxR(s, id) IN
  IF g.out # "ok" THEN [s |-> s, out |-> g.out]
  ELSE IF ~g.found THEN [s |-> s, out |-> "SANDBOX_NOT_FOUND"]
  ELSE LET st == IF g.config.status = "running"
                   THEN stopSandboxR(s, id, f)
                   ELSE [s |-> s, out |-> "ok"]
           d == IF g.config.containerId # NoContainer
                  THEN dockerRemove(st.s.containers, g.config.containerId, rmv)
                  ELSE [ok |-> TRUE, cs |-> st.s.containers]
           s1 == [st.s EXCEPT !.containers = d.cs] IN
       [s |-> rmSandboxDir(s1, id, r), out |-> "ok"]

(* ---------------------------- CLI commands ---------------------------- *)
\* every command begins with `new SandboxManager()`, whose constructor makes
\* a new MCPProxy with an empty port set and an empty proxy table
newSandboxManager(s) == [s EXCEPT !.activePorts = {}, !.proxies = {}]

\* nanoid: an id nothing on the machine refers to
Fresh(s, id) == id \notin s.dirs /\ s.containers[id] = "none"

Exit(r, code) == [s |-> r.s, out |-> r.out, exit |-> code]

createCommand(s, id, name, f) ==
  LET s0 == newSandboxManager(s) IN
  IF f = "pre" THEN [s |-> s0, out |-> "CLONE_OR_TEMPLATE", exit |-> "1"]
  ELSE LET c == createSandbox(s0, id, name, f) IN
  IF c.out # "ok" THEN Exit(c, "1")
  ELSE LET st == startSandbox(c.s, id, f) IN
  IF st.out # "ok" THEN Exit(st, "1")
  ELSE LET m == setupMCP(st.s, id, f) IN
  IF m.out # "ok" THEN Exit(m, "1")
  ELSE LET pc == runPostCreateCommands(m.s, id, f) IN
  IF pc.out # "ok" THEN Exit(pc, "1")
  ELSE IF ~getSandbox(pc.s, id).found
    THEN [s |-> pc.s, out |-> "NOT_FOUND", exit |-> "1"]
    ELSE Exit(pc, "0")

stopCommandNoShortcut(s, id, f) ==
  LET s0 == newSandboxManager(s)
      g == getSandbox(s0, id) IN
  IF ~g.found THEN [s |-> s0, out |-> "NOT_FOUND", exit |-> "1"]
  ELSE IF g.config.status \notin {"stopped", "running"}
    THEN [s |-> s0, out |-> "INVALID_STATE", exit |-> "1"]
  ELSE LET st == stopSandbox(s0, id, f) IN
       Exit(st, IF st.out = "ok" THEN "0" ELSE "1")

stopCommand(s, id, f) ==
  LET s0 == newSandboxManager(s)
      g == getSandbox(s0, id) IN
  IF ~g.found THEN [s |-> s0, out |-> "NOT_FOUND", exit |-> "1"]
  ELSE IF g.config.status = "stopped"
    THEN [s |-> s0, out |-> "ALREADY_STOPPED", exit |-> "0"]
  ELSE IF g.config.status # "running"
    THEN [s |-> s0, out |-> "INVALID_STATE", exit |-> "1"]
  ELSE LET st == stopSandbox(s0, id, f) IN
       Exit(st, IF st.out = "ok" THEN "0" ELSE "1")

removeCommand(s, id, force, confirm, f, rmv, r) ==
  LET s0 == newSandboxManager(s)
      g == getSandbox(s0, id) IN
  IF ~g.found THEN [s |-> s0, out |-> "NOT_FOUND", exit |-> "1"]
  ELSE IF ~force /\ ~confirm
    THEN [s |-> s0, out |-> "CANCELLED", exit |-> "0"]
  ELSE LET st == IF g.config.status = "running"
                   THEN stopSandbox(s0, id, f)
                   ELSE [s |-> s0, out |-> "ok"] IN
  IF st.out # "ok" THEN Exit(st, "1")
  ELSE LET rm == removeSandbox(st.s, id, f, rmv, r) IN
       Exit(rm, IF rm.out = "ok" THEN "0" ELSE "1")

(* ------------------- MCPProxyInstance: JSON-RPC ---------------------- *)
\* texts are sequences of characters
MaxConns == 2
Conns == 1..MaxConns
ReqIds == {"1", "2"}
NullId == "null"
NoId == "-"
ParseError == -32700
MethodNotFound == -32601

SandboxIdText == <<"s", "1">>
FileScheme == <<"f", "i", "l", "e", ":", "/", "/">>
OtherUri == <<"h", ":", "a">>
Paths == { <<"a">>, <<"d", "/", "a">>, <<"d", "/", ".", ".", "/", "a">>,
           <<".", ".", "/", "a">>, <<"/", "a">>,
           <<"d", "/", ".", ".", "/", ".", ".", "/", "a">> }
Contents == { <<"h", "i">>, <<"o", "f">>, <<"x">> }
Tools == {"filesystem_read", "filesystem_write", "shell_execute"}
ToolNames == Tools \cup {"deploy"}
Methods == {"initialize", "tools/list", "tools/call", "resources/list",
            "resources/read", "ping"}

NoParams == [has |-> FALSE, name |-> "-", path |-> <<>>, content |-> <<>>,
             command |-> <<>>, uri |-> <<>>]
CallParams(name, path, content) ==
  [NoParams EXCEPT !.has = TRUE, !.name = name, !.path = path, !.content = content]
ShellParams(command) ==
  [NoParams EXCEPT !.has = TRUE, !.name = "shell_execute", !.command = command]
UriParams(uri) == [NoParams EXCEPT !.has = TRUE, !.uri = uri]

\* what JSON.parse makes of a frame: a throw, a value that is no object
\* (null), or a request object
Garbage == [parsed |-> FALSE, object |-> FALSE, id |-> NoId, method |-> "-",
            params |-> NoParams]
JsonNull == [parsed |-> TRUE, object |-> FALSE, id |-> NoId, method |-> "-",
             params |-> NoParams]
NoFrame == [parsed |-> FALSE, object |-> FALSE, id |-> NoId, method |-> "",
            params |-> NoParams]
Request(id, method, params) ==
  [parsed |-> TRUE, object |-> TRUE, id |-> id, method |-> method,
   params |-> params]

ParamsOf(method) ==
  IF method = "tools/call"
    THEN {NoParams}
         \cup {CallParams("deploy", <<>>, <<>>), ShellParams(<<"l", "s">>)}
         \cup {CallParams("filesystem_read", p, <<>>) : p \in Paths}
         \cup {CallParams("filesystem_write", p, c) : p \in Paths, c \in Contents}
  ELSE IF method = "resources/read"
    THEN {NoParams, UriParams(OtherUri)} \cup {UriParams(FileScheme \o p) : p \in Paths}
  ELSE {NoParams}

Frames ==
  {Garbage, JsonNull}
  \cup UNION { {Request(id, m, ps) : ps \in ParamsOf(m)} : id \in ReqIds, m \in Methods }

\* messages written to the socket
Result(id, isError, text) ==
  [id |-> id, kind |-> "result", code |-> 0, isError |-> isError, text |-> text]
ErrorReply(id, code) ==
  [id |-> id, kind |-> "error", code |-> code, isError |-> FALSE, text |-> <<>>]
\* the same frame with an id member
InitializedWithId ==
  [id |-> NullId, kind |-> "notification", code |-> 0, isError |-> FALSE,
   text |-> <<>>]
Initialized ==
  [id |-> NoId, kind |-> "notification", code |-> 0, isError |-> FALSE,
   text |-> <<>>]
NoMessage ==
  [id |-> NoId, kind |-> "none", code |-> 0, isError |-> FALSE, text |-> <<>>]

\* a handler either returns a value or throws
Return(v) == [threw |-> FALSE, value |-> v]
Throw == [threw |-> TRUE, value |-> NoMessage]

handleFilesystemRead(path) ==
  [isError |-> FALSE,
   text |-> <<"C", "o", "n", "t", "e", "n", "t", " ", "o", "f", " ">> \o path
            \o <<" ", "f", "r", "o", "m", " ", "s", "a", "n", "d", "b", "o", "x", " ">>
            \o SandboxIdText]

handleFilesystemWrite(path, content) ==
  [isError |-> FALSE,
   text |-> <<"S", "u", "c", "c", "e", "s", "s", "f", "u", "l", "l", "y", " ",
              "w", "r", "o", "t", "e", " ", "t", "o", " ">> \o path
            \o <<" ", "i", "n", " ", "s", "a", "n", "d", "b", "o", "x", " ">>
            \o SandboxIdText]

handleShellExecute(command) ==
  [isError |-> FALSE,
   text |-> <<"E", "x", "e", "c", "u", "t", "e", "d", ":", " ">> \o command]

callTool(name, args) ==
  IF name = "filesystem_read" THEN Return(handleFilesystemRead(args.path))
  ELSE IF name = "filesystem_write"
    THEN Return(handleFilesystemWrite(args.path, args.content))
  ELSE IF name = "shell_execute" THEN Return(handleShellExecute(args.command))
  ELSE Throw

StartsWith(text, prefix) ==
  Len(text) >= Len(prefix) /\ SubSeq(text, 1, Len(prefix)) = prefix

readResource(uri) ==
  IF StartsWith(uri, FileScheme)
    THEN Return(handleFilesystemRead(SubSeq(uri, Len(FileScheme) + 1, Len(uri))))
    ELSE Throw

forwardToMCPServer(message) == ErrorReply(message.id, MethodNotFound)

\* the reply handleMCPMessage sends, or the throw that leaves it
handleMCPMessage(message) ==
  IF ~message.object THEN Throw
  ELSE IF message.method \in {"initialize", "tools/list", "resources/list"}
    THEN Return(Result(message.id, FALSE, <<>>))
  ELSE IF message.method = "tools/call"
    THEN IF ~message.params.has THEN Throw
         ELSE LET r == callTool(message.params.name, message.params) IN
              IF r.threw THEN Throw
              ELSE Return(Result(message.id, r.value.isError, r.value.text))
  ELSE IF message.method = "resources/read"
    THEN IF ~message.params.has THEN Throw
         ELSE LET r == readResource(message.params.uri) IN
              IF r.threw THEN Throw
              ELSE Return(Result(message.id, r.value.isError, r.value.text))
  ELSE Return(forwardToMCPServer(message))

\* the socket's 'message' handler: one catch around parsing and handling
onMessage(data) ==
  IF ~data.parsed THEN ErrorReply(NullId, ParseError)
  ELSE LET r == handleMCPMessage(data) IN
       IF r.threw THEN ErrorReply(NullId, ParseError) ELSE r.value

\* no client connected
ProxyIdle ==
  /\ wsOpen = {}
  /\ frame = [c \in Conns |-> NoFrame]
  /\ sent = [c \in Conns |-> NoMessage]

(* ------------------------------- actions ------------------------------ *)
CreateFaults == {"none", "mkdir", "workspace", "build", "createContainer",
                 "saveCreate"}
CreateFaultsR == CreateFaults \cup {"template", "assets"}
CreateCommandFaults == CreateFaults \cup {"pre", "startContainer", "saveStart",
                                          "proxy", "post", "postExit"}

\* the faults of the calls an operation on id makes in the current state
HasContainer(id) == id \in DOMAIN records /\ records[id].containerId # NoContainer
IsRunning(id) == id \in DOMAIN records /\ records[id].status = "running"
StartFaults(id) ==
  IF HasContainer(id) THEN {"none", "startContainer", "saveStart"} ELSE {"none"}
StartFaultsR(id) ==
  IF HasContainer(id) /\ IsAlnum(id)
    THEN {"none", "startContainer", "stopContainer"} ELSE {"none"}
StopFaults(id) ==
  IF HasContainer(id) THEN {"none", "stopContainer", "saveStop"} ELSE {"none"}
StopFaultsIn(id) == IF IsRunning(id) THEN StopFaults(id) ELSE {"none"}
RemoveContainerOutcomes(id) == IF HasContainer(id) THEN BOOLEAN ELSE {TRUE}
RmOutcomesFor(id) == IF id \in DOMAIN records THEN RmOutcomes ELSE {"ok"}

Commit(r, i, op, x) ==
  /\ records' = r.s.records
  /\ dirs' = r.s.dirs
  /\ containers' = r.s.containers
  /\ activePorts' = r.s.activePorts
  /\ proxies' = r.s.proxies
  /\ impl' = i
  /\ last' = [op |-> op, id |-> x, out |-> r.out, exit |-> r.exit]
  /\ UNCHANGED <<portRange, proxyVars,
                 concVars, fileVars, lifeVars, pureVars, brokerVars>>

Lib(r) == [s |-> r.s, out |-> r.out, exit |-> "-"]

Init ==
  /\ impl \in {"throwing", "result"}
  /\ records = <<>>
  /\ dirs = {}
  /\ containers = [i \in Ids |-> "none"]
  /\ activePorts = {}
  /\ proxies = {}
  /\ last = [op |-> "init", id |-> 0, out |-> "ok", exit |-> "-"]
  /\ portRange = PortRange
  /\ ProxyIdle
  /\ ConcIdle
  /\ FileIdle
  /\ BrokerIdle
  /\ LifeIdle
  /\ PureIdle

\* a host program constructs a manager of either class with a new MCPProxy
Construct ==
  \E i \in {"throwing", "result"} :
    /\ impl' = i
    /\ activePorts' = newSandboxManager(Store).activePorts
    /\ proxies' = newSandboxManager(Store).proxies
    /\ last' = [op |-> "construct", id |-> 0, out |-> "ok", exit |-> "-"]
    /\ UNCHANGED <<records, dirs, containers, portRange, proxyVars,
                 concVars, fileVars, lifeVars, pureVars, brokerVars>>

CallCreateSandbox ==
  /\ impl = "throwing"
  /\ \E id \in Ids :
       /\ Fresh(Store, id)
       /\ \E name \in Names, f \in CreateFaults :
            Commit(Lib(createSandbox(Store, id, name, f)), impl, "createSandbox", id)

CallStartSandbox ==
  /\ impl = "throwing"
  /\ \E id \in Ids : \E f \in StartFaults(id) :
       Commit(Lib(startSandbox(Store, id, f)), impl, "startSandbox", id)

CallStopSandbox ==
  /\ impl = "throwing"
  /\ \E id \in Ids : \E f \in StopFaults(id) :
       Commit(Lib(stopSandbox(Store, id, f)), impl, "stopSandbox", id)

CallRemoveSandbox ==
  /\ impl = "throwing"
  /\ \E id \in Ids : \E f \in StopFaultsIn(id), rmv \in RemoveContainerOutcomes(id),
                         r \in RmOutcomesFor(id) :
       Commit(Lib(removeSandbox(Store, id, f, rmv, r)), impl, "removeSandbox", id)

CallCreateSandboxR ==
  /\ impl = "result"
  /\ \E id \in Ids :
       /\ Fresh(Store, id)
       /\ \E name \in Names, f \in (IF IsAlnum(id) THEN CreateFaultsR ELSE {"none"}) :
            Commit(Lib(createSandboxR(Store, id, name, f)), impl, "createSandbox", id)

CallStartSandboxR ==
  /\ impl = "result"
  /\ \E id \in Ids : \E f \in StartFaultsR(id) :
       Commit(Lib(startSandboxR(Store, id, f)), impl, "startSandbox", id)

CallStopSandboxR ==
  /\ impl = "result"
  /\ \E id \in Ids : \E f \in (IF IsAlnum(id) THEN StopFaults(id) ELSE {"none"}) :
       Commit(Lib(stopSandboxR(Store, id, f)), impl, "stopSandbox", id)

CallRemoveSandboxR ==
  /\ impl = "result"
  /\ \E id \in Ids :
       \E f \in (IF IsAlnum(id) THEN StopFaultsIn(id) ELSE {"none"}),
          rmv \in (IF IsAlnum(id) THEN RemoveContainerOutcomes(id) ELSE {TRUE}),
          r \in (IF IsAlnum(id) THEN RmOutcomesFor(id) ELSE {"ok"}) :
         Commit(Lib(performSandboxRemoval(Store, id, f, rmv, r)), impl,
                "removeSandbox", id)

RunCreateCommand ==
  \E id \in CliIds :
    /\ Fresh(Store, id)
    /\ \E name \in Names, f \in CreateCommandFaults :
         Commit(createCommand(Store, id, name, f), "throwing", "createCommand", id)

RunStopCommand ==
  \E id \in Ids : \E f \in StopFaultsIn(id) :
    Commit(stopCommand(Store, id, f), "throwing", "stopCommand", id)

\* answer: the reply to the confirmation prompt, which --force skips
RunRemoveCommand ==
  \E id \in Ids : \E force \in BOOLEAN :
    \E confirm \in (IF force \/ id \notin DOMAIN records THEN {TRUE} ELSE BOOLEAN) :
      \E f \in (IF confirm THEN StopFaultsIn(id) ELSE {"none"}),
         rmv \in (IF confirm THEN RemoveContainerOutcomes(id) ELSE {TRUE}),
         r \in (IF confirm THEN RmOutcomesFor(id) ELSE {"ok"}) :
        Commit(removeCommand(Store, id, force, confirm, f, rmv, r), "throwing",
               IF force THEN "removeCommandForce" ELSE "removeCommand", id)

\* the container's main process (CMD ["/bin/bash"]) ends
ContainerExits ==
  \E id \in Ids :
    /\ containers[id] = "running"
    /\ containers' = [containers EXCEPT ![id] = "idle"]
    /\ last' = [op |-> "containerExits", id |-> id, out |-> "ok", exit |-> "-"]
    /\ UNCHANGED <<impl, records, dirs, activePorts, proxies, portRange, proxyVars,
                 concVars, fileVars, lifeVars, pureVars, brokerVars>>

\* listSandboxes (both classes): reads every config.json, writes nothing
CallListSandboxes ==
  /\ last' = [op |-> "listSandboxes", id |-> 0, out |-> "ok", exit |-> "-"]
  /\ UNCHANGED <<impl, records, dirs, containers, activePorts, proxies, portRange,
                 proxyVars, concVars, fileVars, lifeVars, pureVars, brokerVars>>

\* getSandboxInfo: the record with container.inspect(), null for a missing
\* container
getSandboxInfo(s, id) ==
  LET g == getSandbox(s, id) IN
  IF ~g.found THEN [s |-> s, out |-> "NOT_FOUND"]
  ELSE IF g.config.containerId # NoContainer
          /\ s.containers[g.config.containerId] # "none"
    THEN [s |-> s, out |-> "ok"]
    ELSE [s |-> s, out |-> "NO_CONTAINER_INFO"]

CallGetSandboxInfo ==
  /\ impl = "throwing"
  /\ \E id \in Ids :
       Commit(Lib(getSandboxInfo(Store, id)), impl, "getSandboxInfo", id)

Next ==
  \/ Construct
  \/ CallListSandboxes
  \/ CallGetSandboxInfo
  \/ CallCreateSandbox
  \/ CallStartSandbox
  \/ CallStopSandbox
  \/ CallRemoveSandbox
  \/ CallCreateSandboxR
  \/ CallStartSandboxR
  \/ CallStopSandboxR
  \/ CallRemoveSandboxR
  \/ RunCreateCommand
  \/ RunStopCommand
  \/ RunRemoveCommand
  \/ ContainerExits

Spec == Init /\ [][Next]_vars

TypeOK ==
  /\ impl \in {"throwing", "result"}
  /\ DOMAIN records \subseteq Ids
  /\ \A id \in DOMAIN records :
       /\ records[id].status \in {"creating", "running", "stopped", "error"}
       /\ records[id].name \in Names
       /\ records[id].containerId \in Ids \cup {NoContainer}
       /\ records[id].mcpPort \in PortRange \cup {NoPort}
  /\ dirs \subseteq Ids
  /\ DOMAIN records \subseteq dirs
  /\ activePorts \subseteq PortRange
  /\ proxies \subseteq Ids

(* ------------------------------ claims -------------------------------- *)
Running(id) == id \in DOMAIN records /\ records[id].status = "running"
Stopped(id) == id \in DOMAIN records /\ records[id].status = "stopped"
StepOf(ops, id) == last'.op \in ops /\ last'.id = id
StartOps == {"startSandbox"}
StopOps == {"stopSandbox"}
RemoveOps == {"removeSandbox", "removeCommand", "removeCommandForce"}

\* C1: no two records with status running carry the same mcpPort, also when
\* the operations were issued through separately constructed managers.
C1_PortUniqueness ==
  \A i \in DOMAIN records : \A j \in DOMAIN records :
    (i # j /\ records[i].status = "running" /\ records[j].status = "running")
      => records[i].mcpPort # records[j].mcpPort

C3_StartFromStopped ==
  [][\A id \in Ids :
       (/\ StepOf(StartOps, id)
        /\ Stopped(id)
        /\ PortRange \ activePorts # {}
        /\ last'.out \notin {"RUNTIME_ERROR", "START_FAILED", "IO_ERROR",
                             "SAVE_CONFIG_FAILED"})
       => /\ last'.out = "ok"
          /\ id \in DOMAIN records'
          /\ records'[id].status = "running"
          /\ records'[id].mcpPort \in activePorts' \ activePorts]_vars

\* C4: stop(id) on a record at running, when the runtime stops the container
\* (and the record can be written), succeeds and leaves the record at stopped
\* with mcpPort cleared and that port no longer held by the allocator,
\* whichever SandboxManager implementation performs it.
C4_StopFromRunning ==
  [][\A id \in Ids :
       (/\ StepOf(StopOps, id)
        /\ Running(id)
        /\ containers[id] = "running" /\ containers'[id] = "idle"
        /\ last'.out \notin {"IO_ERROR", "SAVE_CONFIG_FAILED"})
       => /\ last'.out = "ok"
          /\ id \in DOMAIN records'
          /\ records'[id].status = "stopped"
          /\ records'[id].mcpPort = NoPort
          /\ records[id].mcpPort \notin activePorts']_vars

\* C5: start(id) on a record whose status is not stopped is rejected and
\* changes neither the record nor the set of allocated ports.
C5_StartRejectedUnlessStopped ==
  [][\A id \in Ids :
       (/\ StepOf(StartOps, id)
        /\ id \in DOMAIN records
        /\ records[id].status # "stopped")
       => /\ last'.out # "ok"
          /\ records' = records
          /\ activePorts' = activePorts]_vars

\* C6: when a step of create fails after the record was first persisted, the
\* record ends with status error, holds no port, and stays on disk.
C6_FailedCreateEndsInError ==
  [][\A id \in Ids :
       (/\ StepOf({"createCommand"}, id)
        /\ last'.exit = "1"
        /\ last'.out \notin {"CLONE_OR_TEMPLATE", "BUILD_FAILED"}
        /\ id \in DOMAIN records')
       => /\ records'[id].status = "error"
          /\ records'[id].mcpPort \notin activePorts']_vars

\* C7: names are unique across the existing records at all times (a create
\* with the name of an existing record is rejected and creates nothing).
C7_NamesUnique ==
  \A i \in DOMAIN records : \A j \in DOMAIN records :
    i # j => records[i].name # records[j].name

\* C8: after remove(id) completes successfully no record for id exists.
C8_RemovedRecordAbsent ==
  [][\A id \in Ids :
       (StepOf(RemoveOps, id) /\ last'.out = "ok") => id \notin DOMAIN records']_vars

\* C9: remove --force on an existing record finishes with exit code 0, also
\* when the stop it performs first on a running record fails.
C9_ForceRemoveExitsZero ==
  [][\A id \in Ids :
       (StepOf({"removeCommandForce"}, id) /\ id \in DOMAIN records)
       => last'.exit = "0"]_vars

\* C10: the stop command applied to a sandbox that is already stopped exits 0
\* and leaves the records, the containers and the directories as they were;
\* when it follows a successful stop command of the same sandbox, the set of
\* allocated ports is also what that first stop left.
C10_StopIdempotent ==
  [][\A id \in Ids :
       (StepOf({"stopCommand"}, id) /\ Stopped(id))
       => /\ last'.exit = "0"
          /\ records' = records /\ containers' = containers /\ dirs' = dirs
          /\ (last.op = "stopCommand" /\ last.id = id /\ last.exit = "0")
               => activePorts' = activePorts]_vars

\* a stop command found the sandbox already stopped, right after a stop command
\* that had stopped it
C10_Witness ==
  /\ last.op = "stopCommand" /\ last.out = "ALREADY_STOPPED" /\ last.exit = "0"
  /\ Stopped(last.id)
  /\ containers[last.id] = "idle"

\* C11: a create whose post-create command fails still completes successfully
\* (exit 0, the failure only a warning) and leaves the record running with
\* its port
C11_PostCreateFailureIsWarning ==
  [][\A id \in Ids :
       (StepOf({"createCommand"}, id) /\ last'.out = "POST_CREATE_ERROR")
         => /\ last'.exit = "0"
            /\ id \in DOMAIN records'
            /\ records'[id].status = "running"
            /\ records'[id].mcpPort \in activePorts']_vars

(* ============== MCPProxyInstance: the JSON-RPC connection ============== *)
\* the sandbox manager at rest
MainIdle ==
  /\ impl = "throwing"
  /\ records = <<>>
  /\ dirs = {}
  /\ containers = [i \in Ids |-> "none"]
  /\ activePorts = {}
  /\ proxies = {}
  /\ last = [op |-> "init", id |-> 0, out |-> "ok", exit |-> "-"]

InitProxy ==
  /\ MainIdle
  /\ portRange = PortRange
  /\ ProxyIdle
  /\ ConcIdle
  /\ FileIdle
  /\ BrokerIdle
  /\ LifeIdle
  /\ PureIdle

\* wss 'connection': handleConnection registers the handlers and sends the
\* 'initialized' notification
Connect ==
  \E c \in Conns \ wsOpen :
    /\ wsOpen' = wsOpen \cup {c}
    /\ frame' = [frame EXCEPT ![c] = NoFrame]
    /\ sent' = [sent EXCEPT ![c] = Initialized]
    /\ UNCHANGED <<mainVars, portRange, concVars, fileVars, lifeVars, pureVars, brokerVars>>

\* ws 'message'
Receive ==
  \E c \in wsOpen, data \in Frames :
    /\ frame' = [frame EXCEPT ![c] = data]
    /\ sent' = [sent EXCEPT ![c] = onMessage(data)]
    /\ UNCHANGED <<wsOpen, mainVars, portRange, concVars, fileVars, lifeVars, pureVars, brokerVars>>

\* ws 'close', by the client
Close ==
  \E c \in wsOpen :
    /\ wsOpen' = wsOpen \ {c}
    /\ frame' = [frame EXCEPT ![c] = NoFrame]
    /\ sent' = [sent EXCEPT ![c] = NoMessage]
    /\ UNCHANGED <<mainVars, portRange, concVars, fileVars, lifeVars, pureVars, brokerVars>>

NextProxy ==
  \/ Connect
  \/ Receive
  \/ Close

SpecProxy == InitProxy /\ [][NextProxy]_vars

IsRequest(m) == m.parsed /\ m.object
IsToolCall(m, name) ==
  IsRequest(m) /\ m.method = "tools/call" /\ m.params.has /\ m.params.name = name
IsResourceRead(m) ==
  IsRequest(m) /\ m.method = "resources/read" /\ m.params.has
    /\ StartsWith(m.params.uri, FileScheme)
\* the path a read request asks for
ReadPath(m) ==
  IF IsResourceRead(m)
    THEN SubSeq(m.params.uri, Len(FileScheme) + 1, Len(m.params.uri))
    ELSE m.params.path

Contains(text, part) ==
  \E i \in 0..(Len(text) - Len(part)) : SubSeq(text, i + 1, i + Len(part)) = part

\* the segments of a path between its "/" characters
RECURSIVE Segments(_)
Segments(path) ==
  IF path = <<>> THEN << <<>> >>
  ELSE LET r == Segments(Tail(path)) IN
       IF Head(path) = "/" THEN << <<>> >> \o r
       ELSE << <<Head(path)>> \o Head(r) >> \o Tail(r)

\* whether walking the segments from a directory `depth` levels below the
\* workspace root leaves the root
RECURSIVE Escapes(_, _)
Escapes(segs, depth) ==
  IF segs = <<>> THEN FALSE
  ELSE IF Head(segs) = <<".", ".">>
    THEN depth = 0 \/ Escapes(Tail(segs), depth - 1)
  ELSE IF Head(segs) \in {<<>>, <<".">>} THEN Escapes(Tail(segs), depth)
  ELSE Escapes(Tail(segs), depth + 1)

OutsideWorkspace(path) ==
  (path # <<>> /\ Head(path) = "/") \/ Escapes(Segments(path), 0)

\* C12: the response to a frame that parsed as a request carries the
\* request's id; the parse error -32700 with id null is never the answer to
\* a request that parsed
C12_ResponseCarriesRequestId ==
  \A c \in wsOpen :
    IsRequest(frame[c])
      => /\ sent[c].id = frame[c].id
         /\ sent[c] # ErrorReply(NullId, ParseError)

\* C13: a tools/call naming a tool that is not built in is answered with
\* error -32601 under the request's id, on a connection that stays open
C13_UnknownToolIsMethodNotFound ==
  \A c \in Conns : \A name \in ToolNames \ Tools :
    IsToolCall(frame[c], name)
      => c \in wsOpen /\ sent[c] = ErrorReply(frame[c].id, MethodNotFound)

\* C14: a filesystem_read that follows a filesystem_write of the same path
\* inside the workspace returns isError = false and a text containing the
\* content written
C14_ReadReturnsWhatWasWritten ==
  [][\A c \in Conns :
       (/\ IsToolCall(frame[c], "filesystem_write")
        /\ sent[c].kind = "result" /\ ~sent[c].isError
        /\ IsToolCall(frame'[c], "filesystem_read")
        /\ frame'[c].params.path = frame[c].params.path
        /\ ~OutsideWorkspace(frame[c].params.path))
         => /\ sent'[c].kind = "result"
            /\ ~sent'[c].isError
            /\ Contains(sent'[c].text, frame[c].params.content)]_vars

\* C15: no read (filesystem_read, or resources/read of a file:// URI) of a
\* path that resolves outside the workspace is answered successfully
C15_NoReadOutsideWorkspace ==
  \A c \in wsOpen :
    ((IsToolCall(frame[c], "filesystem_read") \/ IsResourceRead(frame[c]))
       /\ OutsideWorkspace(ReadPath(frame[c])))
      => sent[c].kind = "error" \/ sent[c].isError

(* ===================== MCPProxy: the port allocator ==================== *)
\* the allocator over ranges [PortMin, PortMin], ..., of up to MaxRange ports
MaxRange == 5
Ranges == { PortMin..hi : hi \in PortMin..(PortMin + MaxRange - 1) }

InitAlloc ==
  /\ MainIdle
  /\ ProxyIdle
  /\ ConcIdle
  /\ FileIdle
  /\ BrokerIdle
  /\ LifeIdle
  /\ PureIdle
  /\ portRange \in Ranges

AllocatePort ==
  LET r == allocatePort(activePorts) IN
    /\ activePorts' = r.ports
    /\ last' = [op |-> "allocatePort", id |-> r.port,
                out |-> IF r.ok THEN "ok" ELSE "PORT_EXHAUSTED", exit |-> "-"]
    /\ UNCHANGED <<impl, records, dirs, containers, proxies, portRange, proxyVars,
                 concVars, fileVars, lifeVars, pureVars, brokerVars>>

ReleasePort ==
  \E port \in portRange :
    /\ activePorts' = releasePort(activePorts, port)
    /\ last' = [op |-> "releasePort", id |-> port, out |-> "ok", exit |-> "-"]
    /\ UNCHANGED <<impl, records, dirs, containers, proxies, portRange, proxyVars,
                 concVars, fileVars, lifeVars, pureVars, brokerVars>>

NextAlloc ==
  \/ AllocatePort
  \/ ReleasePort

SpecAlloc == InitAlloc /\ [][NextAlloc]_vars

Sid == MinOf(Ids)
Calls == {"start", "stop", "remove"}

StoppedStore == createSandbox(EmptyStore, Sid, "s1", "none").s
RunningStore == startSandbox(StoppedStore, Sid, "none").s

FirstStep(c) == IF c = "stop" THEN "stop.getSandbox" ELSE "getSandbox"

InitConc ==
  /\ impl = "throwing"
  /\ portRange = PortRange
  /\ origin \in {StoppedStore, RunningStore}
  /\ records = origin.records
  /\ dirs = origin.dirs
  /\ containers = origin.containers
  /\ activePorts = origin.activePorts
  /\ proxies = origin.proxies
  /\ last = [op |-> "init", id |-> 0, out |-> "ok", exit |-> "-"]
  /\ call \in [Procs -> Calls]
  /\ step = [p \in Procs |-> FirstStep(call[p])]
  /\ loc = [p \in Procs |-> NoLocals]
  /\ ret = [p \in Procs |-> "-"]
  /\ ProxyIdle
  /\ FileIdle
  /\ BrokerIdle
  /\ LifeIdle
  /\ PureIdle

concFixed == <<impl, proxies, last, portRange, call, origin, proxyVars, fileVars, lifeVars, pureVars, brokerVars>>

\* the call of p ends: it returns, or throws e
Finish(p, e) ==
  /\ step' = [step EXCEPT ![p] = "done"]
  /\ ret' = [ret EXCEPT ![p] = e]

Goto(p, label) ==
  /\ step' = [step EXCEPT ![p] = label]
  /\ ret' = ret

\* startSandbox / removeSandbox: const config = await this.getSandbox(id)
AwaitGetSandbox ==
  \E p \in Procs :
    /\ step[p] = "getSandbox"
    /\ LET g == getSandbox(Store, Sid) IN
         /\ loc' = [loc EXCEPT ![p].config = g.config]
         /\ IF ~g.found \/ (call[p] = "start" /\ g.config.containerId = NoContainer)
              THEN Finish(p, "NOT_FOUND")
            ELSE IF call[p] = "start" THEN Goto(p, "container.start")
            ELSE IF g.config.status = "running" THEN Goto(p, "stop.getSandbox")
            ELSE IF g.config.containerId # NoContainer THEN Goto(p, "container.remove")
            ELSE Goto(p, "fs.rm")
    /\ UNCHANGED <<records, dirs, containers, activePorts, concFixed>>

\* startSandbox: await container.start()
AwaitContainerStart ==
  \E p \in Procs :
    /\ step[p] = "container.start"
    /\ LET c == dockerStart(containers, loc[p].config.containerId, TRUE) IN
         /\ containers' = c.cs
         /\ IF c.ok THEN Goto(p, "allocatePort") ELSE Finish(p, "RUNTIME_ERROR")
    /\ UNCHANGED <<records, dirs, activePorts, loc, concFixed>>

\* startSandbox: const mcpPort = await this.mcpProxy.allocatePort()
AwaitAllocatePort ==
  \E p \in Procs :
    /\ step[p] = "allocatePort"
    /\ LET a == allocatePort(activePorts) IN
         /\ activePorts' = a.ports
         /\ loc' = [loc EXCEPT ![p].port = a.port]
         /\ IF a.ok THEN Goto(p, "saveSandboxConfig") ELSE Finish(p, "PORT_EXHAUSTED")
    /\ UNCHANGED <<records, dirs, containers, concFixed>>

\* startSandbox: await this.saveSandboxConfig(updatedConfig)
AwaitSaveRunning ==
  \E p \in Procs :
    /\ step[p] = "saveSandboxConfig"
    /\ LET updatedConfig == runningConfig(loc[p].config, loc[p].port)
           w == saveSandboxConfig(Store, Sid, updatedConfig, TRUE) IN
         /\ records' = w.s.records
         /\ Finish(p, IF w.ok THEN "ok" ELSE "IO_ERROR")
    /\ UNCHANGED <<dirs, containers, activePorts, loc, concFixed>>

\* stopSandbox: const config = await this.getSandbox(id)
AwaitStopGetSandbox ==
  \E p \in Procs :
    /\ step[p] = "stop.getSandbox"
    /\ LET g == getSandbox(Store, Sid) IN
         /\ loc' = [loc EXCEPT ![p].inner = g.config]
         /\ IF ~g.found \/ g.config.containerId = NoContainer
              THEN Finish(p, "NOT_FOUND")
              ELSE Goto(p, "container.stop")
    /\ UNCHANGED <<records, dirs, containers, activePorts, concFixed>>

\* stopSandbox: await container.stop()
AwaitContainerStop ==
  \E p \in Procs :
    /\ step[p] = "container.stop"
    /\ LET c == dockerStop(containers, loc[p].inner.containerId, TRUE) IN
         /\ containers' = c.cs
         /\ IF ~c.ok THEN Finish(p, "RUNTIME_ERROR")
            ELSE IF loc[p].inner.mcpPort # NoPort THEN Goto(p, "releasePort")
            ELSE Goto(p, "stop.saveSandboxConfig")
    /\ UNCHANGED <<records, dirs, activePorts, loc, concFixed>>

\* stopSandbox: await this.mcpProxy.releasePort(config.mcpPort)
AwaitReleasePort ==
  \E p \in Procs :
    /\ step[p] = "releasePort"
    /\ activePorts' = releasePort(activePorts, loc[p].inner.mcpPort)
    /\ Goto(p, "stop.saveSandboxConfig")
    /\ UNCHANGED <<records, dirs, containers, loc, concFixed>>

\* stopSandbox: await this.saveSandboxConfig(updatedConfig); a stop called by
\* removeSandbox returns into it
AwaitSaveStopped ==
  \E p \in Procs :
    /\ step[p] = "stop.saveSandboxConfig"
    /\ LET updatedConfig == stoppedConfig(loc[p].inner)
           w == saveSandboxConfig(Store, Sid, updatedConfig, TRUE) IN
         /\ records' = w.s.records
         /\ IF ~w.ok THEN Finish(p, "IO_ERROR")
            ELSE IF call[p] = "stop" THEN Finish(p, "ok")
            ELSE IF loc[p].config.containerId # NoContainer
              THEN Goto(p, "container.remove")
            ELSE Goto(p, "fs.rm")
    /\ UNCHANGED <<dirs, containers, activePorts, loc, concFixed>>

\* removeSandbox: await container.remove({ force: true }), failure ignored
AwaitContainerRemove ==
  \E p \in Procs :
    /\ step[p] = "container.remove"
    /\ containers' = dockerRemove(containers, loc[p].config.containerId, TRUE).cs
    /\ Goto(p, "fs.rm")
    /\ UNCHANGED <<records, dirs, activePorts, loc, concFixed>>

\* removeSandbox: await fs.rm(sandboxDir, { recursive: true, force: true })
AwaitRm ==
  \E p \in Procs :
    /\ step[p] = "fs.rm"
    /\ LET s1 == rmSandboxDir(Store, Sid, "ok") IN
         /\ records' = s1.records
         /\ dirs' = s1.dirs
    /\ Finish(p, "ok")
    /\ UNCHANGED <<containers, activePorts, loc, concFixed>>

NextConc ==
  \/ AwaitGetSandbox
  \/ AwaitContainerStart
  \/ AwaitAllocatePort
  \/ AwaitSaveRunning
  \/ AwaitStopGetSandbox
  \/ AwaitContainerStop
  \/ AwaitReleasePort
  \/ AwaitSaveStopped
  \/ AwaitContainerRemove
  \/ AwaitRm

SpecConc == InitConc /\ [][NextConc]_vars

\* the whole call, run without interruption
Atomic(c, s) ==
  IF c = "start" THEN startSandbox(s, Sid, "none")
  ELSE IF c = "stop" THEN stopSandbox(s, Sid, "none")
  ELSE removeSandbox(s, Sid, "none", TRUE, "ok")

\* the store and the two results when `first` runs to its end before `second`
Serial(first, second) ==
  LET a == Atomic(call[first], origin)
      b == Atomic(call[second], a.s) IN
    [s |-> b.s, ret |-> (first :> a.out) @@ (second :> b.out)]

\* C17: concurrent start, stop and remove of one sandbox end as if they had
\* run one after the other in some order: the records, the containers and
\* the allocated ports they leave are those of a serial execution
C17_Serializable ==
  (\A p \in Procs : step[p] = "done")
    => \E first \in Procs : \E second \in Procs \ {first} :
         Store = Serial(first, second).s

(* ================= config.json: writes seen by readers ================= *)
\* saveSandboxConfig is one fs.writeFile on config.json itself: the file is
\* opened with flag 'w', which empties it, and the JSON text is written
\* afterwards.  A reader is another call or another process.
BaseConfigs ==
  { [status |-> "stopped", name |-> n, containerId |-> Sid, mcpPort |-> NoPort] :
      n \in Names }
SavedConfigs ==
  {stoppedConfig(c) : c \in BaseConfigs}
  \cup {runningConfig(c, port) : c \in BaseConfigs, port \in PortRange}

Complete(config) == [kind |-> "complete", config |-> config]
Partial == [kind |-> "partial", config |-> NullConfig]

\* getSandbox: readFile and JSON.parse in one try, null on any error
readConfig(f) ==
  IF f.kind = "complete"
    THEN [found |-> TRUE, config |-> f.config]
    ELSE [found |-> FALSE, config |-> NullConfig]

InitFile ==
  /\ MainIdle
  /\ portRange = PortRange
  /\ ProxyIdle
  /\ ConcIdle
  /\ FileIdle
  /\ BrokerIdle
  /\ LifeIdle
  /\ PureIdle

fileFixed == <<mainVars, portRange, proxyVars, concVars, lifeVars, pureVars, brokerVars>>

\* fs.writeFile opens config.json for writing
BeginWrite ==
  \E config \in SavedConfigs :
    /\ ~writer.busy
    /\ file' = Partial
    /\ writer' = [busy |-> TRUE, old |-> file, new |-> config]
    /\ UNCHANGED <<seen, fileFixed>>

\* fs.writeFile has written the text, and resolves
EndWrite ==
  /\ writer.busy
  /\ file' = Complete(writer.new)
  /\ writer' = [writer EXCEPT !.busy = FALSE]
  /\ UNCHANGED <<seen, fileFixed>>

\* the writing process is killed before the text is written
Crash ==
  /\ writer.busy
  /\ writer' = [writer EXCEPT !.busy = FALSE]
  /\ UNCHANGED <<file, seen, fileFixed>>

\* a getSandbox of a concurrent call or of a restarted process
ReadConfig ==
  /\ seen' = readConfig(file)
  /\ UNCHANGED <<file, writer, fileFixed>>

NextFile ==
  \/ BeginWrite
  \/ EndWrite
  \/ Crash
  \/ ReadConfig

SpecFile == InitFile /\ [][NextFile]_vars

\* C18: config.json is replaced atomically: once a complete record is being
\* replaced, every read (concurrent, or after a crash of the writer) returns
\* the complete previous record or the complete new record
C18_AtomicReplace ==
  [][(file' = file /\ writer' = writer /\ writer.old.kind = "complete")
       => /\ seen'.found
          /\ seen'.config \in {writer.old.config, writer.new}]_vars

\* C19: an enumeration or observation (list, info) flips to error every
\* record it covers whose containerId is absent or whose container no longer
\* exists in the runtime
C19_MissingContainerFlipsToError ==
  [][\A id \in DOMAIN records :
       (/\ \/ last'.op = "listSandboxes"
           \/ last'.op = "getSandboxInfo" /\ last'.id = id
        /\ \/ records[id].containerId = NoContainer
           \/ containers[records[id].containerId] = "none")
         => id \in DOMAIN records' /\ records'[id].status = "error"]_vars

(* ================== the lifetime of a running sandbox ================== *)
\* One sandbox created with --timeout and --persist, and the passing of
\* time.  The only code that stops a sandbox is the stop command (and the
\* stop inside remove); nothing in the program runs on a timer.
MaxTimeout == 3
MaxElapsed == MaxTimeout + 1

InitReaper ==
  /\ MainIdle
  /\ portRange = PortRange
  /\ ProxyIdle
  /\ ConcIdle
  /\ FileIdle
  /\ BrokerIdle
  /\ LifeIdle
  /\ PureIdle

lifeFixed == <<portRange, proxyVars, concVars, fileVars, pureVars, brokerVars>>

\* dcsandbox create --timeout <minutes> [--persist]
LifeCreate ==
  \E name \in Names, minutes \in 1..MaxTimeout, keep \in BOOLEAN :
    /\ Fresh(Store, Sid)
    /\ LET r == createCommand(Store, Sid, name, "none") IN
         /\ records' = r.s.records
         /\ dirs' = r.s.dirs
         /\ containers' = r.s.containers
         /\ activePorts' = r.s.activePorts
         /\ proxies' = r.s.proxies
         /\ last' = [op |-> "createCommand", id |-> Sid, out |-> r.out, exit |-> r.exit]
    /\ impl' = "throwing"
    /\ timeout' = minutes
    /\ persist' = keep
    /\ elapsed' = 0
    /\ UNCHANGED lifeFixed

\* a minute passes
Tick ==
  /\ Sid \in DOMAIN records
  /\ elapsed' = IF Running(Sid) /\ elapsed < MaxElapsed THEN elapsed + 1 ELSE elapsed
  /\ last' = [op |-> "clock", id |-> 0,
              out |-> IF last.out = "tick" THEN "tock" ELSE "tick", exit |-> "-"]
  /\ UNCHANGED <<impl, records, dirs, containers, activePorts, proxies, timeout,
                 persist, lifeFixed>>

\* dcsandbox stop <id>, by the user
LifeStop ==
  /\ Sid \in DOMAIN records
  /\ LET r == stopCommand(Store, Sid, "none") IN
       /\ records' = r.s.records
       /\ dirs' = r.s.dirs
       /\ containers' = r.s.containers
       /\ activePorts' = r.s.activePorts
       /\ proxies' = r.s.proxies
       /\ last' = [op |-> "stopCommand", id |-> Sid, out |-> r.out, exit |-> r.exit]
  /\ impl' = "throwing"
  /\ UNCHANGED <<lifeVars, lifeFixed>>

NextReaper ==
  \/ LifeCreate
  \/ Tick
  \/ LifeStop

\* time keeps passing; nothing obliges the user to stop the sandbox
SpecReaper == InitReaper /\ [][NextReaper]_vars /\ WF_vars(Tick)

\* C20: a sandbox that stays running past its timeout, persist not requested,
\* is eventually stopped: its record at stopped and its port released
C20_ExpiredSandboxIsStopped ==
  (Running(Sid) /\ ~persist /\ elapsed > timeout)
    ~> (Stopped(Sid) /\ records[Sid].mcpPort = NoPort)

(* ============ project detection and the template of create ============ *)
\* A project is the list getFileList returns (paths relative to the project
\* root, a file of a subdirectory as dir/file) and what JSON.parse makes of
\* its package.json.  Confidences are in thousandths.  The code adds IEEE
\* doubles: its sums differ from the decimal ones by less than 10^-15, which
\* decides a comparison with a threshold in one case only, kept below
\* (RoundingExcess); two detectors whose decimal sums are equal may be
\* ordered by their doubles.
MaxFiles == 3
Threshold == 700
RoundingExcess == 1

EndsWith(text, suffix) ==
  Len(text) >= Len(suffix)
    /\ SubSeq(text, Len(text) - Len(suffix) + 1, Len(text)) = suffix

SomeEndsWith(files, suffixes) ==
  \E f \in files : \E x \in suffixes : EndsWith(f, x)

SomeIncludes(files, parts) ==
  \E f \in files : \E x \in parts : Contains(f, x)

Plus(cond, amount) == IF cond THEN amount ELSE 0

\* what dependencies and devDependencies of package.json name, or "invalid"
\* when JSON.parse throws
\* (vue, next, nuxt and nestjs count as express does)
PackageJsons == {"react", "express", "plain", "invalid"}
NoPackageJson == "absent"

\* 0.8 - 0.2 is 0.6000000000000001 in doubles, and stays above the decimal
\* sum through the additions that follow
detectNodeJS(files, pkg) ==
  LET has == "package.json" \in files
      framework == IF has /\ pkg \notin {"plain", "invalid"} THEN pkg ELSE "none"
      confidence ==
        Plus(has, 800)
        + Plus(has /\ framework # "none", 100)
        - Plus(has /\ pkg = "invalid", 200 - RoundingExcess)
        + Plus({"package-lock.json", "yarn.lock", "pnpm-lock.yaml"} \cap files # {}, 50)
        + Plus(SomeEndsWith(files, {".js", ".jsx"}), 100)
        + Plus(SomeEndsWith(files, {".ts", ".tsx"}), 100)
        + Plus("tsconfig.json" \in files, 50)
        + Plus({".eslintrc.js", ".eslintrc.json"} \cap files # {}, 50)
  IN [language |-> "javascript",
      template |-> IF framework = "react" THEN "react" ELSE "node",
      confidence |-> confidence]

\* the two orders in which the framework chain of detectPython can test
\* manage.py and the flask names
detectPythonFlaskFirst(files) ==
  LET flask == SomeIncludes(files, {"flask", "app.py"})
      django == ~flask /\ "manage.py" \in files
      fastapi == ~flask /\ ~django /\ "main.py" \in files
                   /\ SomeIncludes(files, {"fastapi"})
  IN [language |-> "python",
      template |-> IF django THEN "django" ELSE "python",
      confidence |->
        Plus(SomeEndsWith(files, {".py"}), 600)
        + Plus("requirements.txt" \in files, 200)
        + Plus("setup.py" \in files, 150)
        + Plus("pyproject.toml" \in files, 100)
        + Plus("Pipfile" \in files, 100)
        + Plus("poetry.lock" \in files, 100)
        + Plus(flask, 100) + Plus(django, 150) + Plus(fastapi, 100)]

detectPython(files) ==
  LET django == "manage.py" \in files
      flask == ~django /\ SomeIncludes(files, {"flask", "app.py"})
      fastapi == ~django /\ ~flask /\ "main.py" \in files
                   /\ SomeIncludes(files, {"fastapi"})
  IN [language |-> "python",
      template |-> IF django THEN "django" ELSE "python",
      confidence |->
        Plus(SomeEndsWith(files, {".py"}), 600)
        + Plus("requirements.txt" \in files, 200)
        + Plus("setup.py" \in files, 150)
        + Plus("pyproject.toml" \in files, 100)
        + Plus("Pipfile" \in files, 100)
        + Plus("poetry.lock" \in files, 100)
        + Plus(django, 150) + Plus(flask, 100) + Plus(fastapi, 100)]

detectGo(files) ==
  [language |-> "go", template |-> "go",
   confidence |-> Plus(SomeEndsWith(files, {".go"}), 700)
                  + Plus("go.mod" \in files, 200)
                  + Plus("go.sum" \in files, 100)]

detectRust(files) ==
  [language |-> "rust", template |-> "rust",
   confidence |-> Plus(SomeEndsWith(files, {".rs"}), 700)
                  + Plus("Cargo.toml" \in files, 250)
                  + Plus("Cargo.lock" \in files, 100)]

detectJava(files) ==
  [language |-> "java", template |-> "java",
   confidence |-> Plus(SomeEndsWith(files, {".java"}), 700)
                  + Plus("pom.xml" \in files, 200)
                  + Plus({"build.gradle", "build.gradle.kts"} \cap files # {}, 200)
                  + Plus(SomeIncludes(files, {"Application.java"}), 100)]

detectRuby(files) ==
  [language |-> "ruby", template |-> "ruby",
   confidence |-> Plus(SomeEndsWith(files, {".rb"}), 700)
                  + Plus("Gemfile" \in files, 200)
                  + Plus("Gemfile.lock" \in files, 100)
                  + Plus("config.ru" \in files, 100)]

detectPHP(files) ==
  LET laravel == "artisan" \in files
      symfony == ~laravel /\ "index.php" \in files
                   /\ SomeIncludes(files, {"symfony"})
  IN [language |-> "php", template |-> "php",
      confidence |-> Plus(SomeEndsWith(files, {".php"}), 700)
                     + Plus("composer.json" \in files, 200)
                     + Plus("composer.lock" \in files, 100)
                     + Plus(laravel, 100) + Plus(symfony, 100)]

detectDotNet(files) ==
  [language |-> "csharp", template |-> "dotnet",
   confidence |-> Plus(SomeEndsWith(files, {".cs", ".csproj", ".sln"}), 700)
                  + Plus(SomeEndsWith(files, {".csproj"}), 200)
                  + Plus(SomeEndsWith(files, {".sln"}), 100)]

Unknown == [language |-> "unknown", template |-> "base", confidence |-> 0]

\* results.reduce((best, current) => current.confidence > best.confidence ?
\* current : best) over the detectors in their order: the first of the
\* highest
\* the reduction that would keep the later of two equal confidences
RECURSIVE reduceLast(_, _, _)
reduceLast(results, i, best) ==
  IF i > Len(results) THEN best
  ELSE reduceLast(results, i + 1,
                  IF results[i].confidence >= best.confidence
                    THEN results[i] ELSE best)

RECURSIVE reduceBest(_, _, _)
reduceBest(results, i, best) ==
  IF i > Len(results) THEN best
  ELSE reduceBest(results, i + 1,
                  IF results[i].confidence > best.confidence
                    THEN results[i] ELSE best)

detectProject(files, pkg) ==
  LET all == <<detectNodeJS(files, pkg), detectPython(files), detectGo(files),
               detectRust(files), detectJava(files), detectRuby(files),
               detectPHP(files), detectDotNet(files)>>
      results == SelectSeq(all, LAMBDA r : r.confidence > 0)
  IN IF Len(results) = 0 THEN Unknown
     ELSE reduceBest(results, 2, results[1])

\* createCommand, lines 23 to 43: the template the create goes on with
NoTemplate == ""
Options == [template : {NoTemplate, "python"}, git : BOOLEAN, autoDetect : BOOLEAN]

resolveTemplate(options, files, pkg) ==
  LET given == IF options.template = NoTemplate THEN "base" ELSE options.template
      detects == options.git /\ (options.autoDetect \/ options.template = NoTemplate)
      detection == IF detects THEN detectProject(files, pkg) ELSE Unknown
  IN [of |-> "create", options |-> options, detected |-> detects,
      detection |-> detection,
      template |-> IF detects /\ detection.confidence > Threshold
                     THEN detection.template ELSE given]

\* the files a cloned repository is made of
Files == {"package.json", "package-lock.json", "src/index.ts", "tsconfig.json",
          ".eslintrc.js", "manage.py", "app.py", "requirements.txt",
          "main.go", "go.mod", "A.java", "pom.xml", "build.gradle",
          "lib.rs", "app.rb", "index.php", "App.csproj"}

InitDetect ==
  /\ MainIdle
  /\ portRange = PortRange
  /\ ProxyIdle
  /\ ConcIdle
  /\ FileIdle
  /\ BrokerIdle
  /\ LifeIdle
  /\ input = [of |-> "project", files |-> {}, pkg |-> NoPackageJson]
  /\ output = NoOutput

pureFixed == <<mainVars, portRange, proxyVars, concVars, fileVars, lifeVars,
              brokerVars>>

\* one more file in the repository
AddFile ==
  /\ Cardinality(input.files) < MaxFiles
  /\ \E f \in Files \ input.files :
       \E pkg \in PackageJsons :
         /\ f # "package.json" => pkg = "plain"
         /\ input' = [input EXCEPT !.files = @ \cup {f},
                                   !.pkg = IF f = "package.json" THEN pkg ELSE @]
  /\ output' = NoOutput
  /\ UNCHANGED pureFixed

\* dcsandbox create [--git <url>] [--template <t>] [--auto-detect]
Detect ==
  /\ \E options \in Options :
       output' = resolveTemplate(options, input.files, input.pkg)
  /\ UNCHANGED <<input, pureFixed>>

NextDetect ==
  \/ AddFile
  \/ Detect

SpecDetect == InitDetect /\ [][NextDetect]_vars

\* C21: when create detects the project type, it goes on with the detector's
\* template exactly when the confidence is at least 0.7 (0.7 itself
\* included), and with base otherwise
C21_TemplateFromConfidence ==
  (output.of = "create" /\ output.detected) =>
    /\ output.detection.confidence >= Threshold
         => output.template = output.detection.template
    /\ output.detection.confidence < Threshold
         => output.template = "base"

\* C22: the confidence detectProject returns lies between 0 and 1
C22_ConfidenceInUnitInterval ==
  (output.of = "create" /\ output.detected) =>
    /\ output.detection.confidence >= 0
    /\ output.detection.confidence <= 1000

Absent == [file |-> "absent"]
Unparsable == [file |-> "unparsable"]
YamlNull == [file |-> "parsed", type |-> "null"]

Document(dir, servers) ==
  [file |-> "parsed", type |-> "object", name |-> "string",
   baseImage |-> "string", features |-> "array", mcpServers |-> servers,
   from |-> dir]

TemplateFiles(dir) ==
  {Absent, Unparsable, YamlNull, Document(dir, "undefined"), Document(dir, "array")}

CustomNames == {"node.yaml", "node.yml"}
BuiltinNames == {"base.yaml", "node.yaml"}
TemplateNames == {"base", "node", "go"}

NullTemplate == [file |-> "null"]

\* typeof null is 'object', and reading a property of null throws
isValidTemplate(obj) ==
  IF obj.type = "null" THEN "throws"
  ELSE IF obj.type = "object" /\ obj.name = "string" /\ obj.baseImage = "string"
            /\ obj.features = "array" /\ obj.mcpServers = "array"
    THEN "true" ELSE "false"

loadTemplate(dir, name) ==
  LET templatePath == name \o ".yaml"
      content == IF templatePath \in DOMAIN dir THEN dir[templatePath] ELSE Absent
  IN IF content.file # "parsed" THEN NullTemplate
     ELSE IF isValidTemplate(content) = "true" THEN content
     ELSE NullTemplate

getTemplateBuiltinFirst(custom, builtin, name) ==
  IF loadTemplate(builtin, name) # NullTemplate THEN loadTemplate(builtin, name)
  ELSE loadTemplate(custom, name)

getTemplate(custom, builtin, name) ==
  IF loadTemplate(custom, name) # NullTemplate THEN loadTemplate(custom, name)
  ELSE IF loadTemplate(builtin, name) # NullTemplate THEN loadTemplate(builtin, name)
  ELSE NullTemplate

\* path.basename(file, path.extname(file))
Basename(entry) ==
  IF EndsWith(entry, ".yaml") THEN SubSeq(entry, 1, Len(entry) - 5)
  ELSE SubSeq(entry, 1, Len(entry) - 4)

\* fs.readdir, in the order of the names
RECURSIVE readdir(_, _)
readdir(dir, order) ==
  IF order = <<>> THEN <<>>
  ELSE (IF Head(order) \in DOMAIN dir /\ dir[Head(order)] # Absent
          THEN <<Head(order)>> ELSE <<>>) \o readdir(dir, Tail(order))

FileOrder == <<"base.yaml", "node.yaml", "node.yml">>
NameOrder == <<"base", "node">>

RECURSIVE listOf(_, _, _)
listOf(dir, files, isBuiltin) ==
  IF files = <<>> THEN <<>>
  ELSE LET name == Basename(Head(files))
           template == loadTemplate(dir, name)
       IN (IF template # NullTemplate
             THEN <<[name |-> name, builtin |-> isBuiltin, from |-> template.from]>>
             ELSE <<>>) \o listOf(dir, Tail(files), isBuiltin)

\* templates.sort((a, b) => a.name.localeCompare(b.name)), a stable sort
RECURSIVE sortByName(_, _)
sortByName(templates, order) ==
  IF order = <<>> THEN <<>>
  ELSE SelectSeq(templates, LAMBDA e : e.name = Head(order))
         \o sortByName(templates, Tail(order))

listTemplates(custom, builtin) ==
  sortByName(listOf(builtin, readdir(builtin, FileOrder), TRUE)
               \o listOf(custom, readdir(custom, FileOrder), FALSE),
             NameOrder)

InitTemplates ==
  /\ MainIdle
  /\ portRange = PortRange
  /\ ProxyIdle
  /\ ConcIdle
  /\ FileIdle
  /\ BrokerIdle
  /\ LifeIdle
  /\ input = [of |-> "templates",
              custom |-> [f \in CustomNames |-> Absent],
              builtin |-> [f \in BuiltinNames |-> Absent]]
  /\ output = NoOutput

\* a file of the custom directory is written or deleted
PutCustom ==
  /\ \E f \in CustomNames : \E c \in TemplateFiles("custom") :
       input' = [input EXCEPT !.custom[f] = c]
  /\ output' = NoOutput
  /\ UNCHANGED pureFixed

\* the built-in directory as the installation left it
PutBuiltin ==
  /\ \E f \in BuiltinNames : \E c \in TemplateFiles("builtin") :
       input' = [input EXCEPT !.builtin[f] = c]
  /\ output' = NoOutput
  /\ UNCHANGED pureFixed

GetTemplate ==
  /\ \E name \in TemplateNames :
       output' = [of |-> "getTemplate", name |-> name,
                  template |-> getTemplate(input.custom, input.builtin, name)]
  /\ UNCHANGED <<input, pureFixed>>

ListTemplates ==
  /\ output' = [of |-> "listTemplates",
                templates |-> listTemplates(input.custom, input.builtin)]
  /\ UNCHANGED <<input, pureFixed>>

NextTemplates ==
  \/ PutCustom
  \/ PutBuiltin
  \/ GetTemplate
  \/ ListTemplates

SpecTemplates == InitTemplates /\ [][NextTemplates]_vars

\* a file <name>.yaml of the directory that parses to a document with the
\* four required fields
ValidIn(dir, name) ==
  /\ (name \o ".yaml") \in DOMAIN dir
  /\ dir[name \o ".yaml"].file = "parsed"
  /\ dir[name \o ".yaml"].type = "object"
  /\ dir[name \o ".yaml"].mcpServers = "array"

\* C24: getTemplate returns the valid custom template of the name, else the
\* valid built-in one, else nothing; listTemplates returns the valid
\* templates of both directories whatever the other files are
C24_TemplateLookup ==
  /\ output.of = "getTemplate" =>
       output.template =
         IF ValidIn(input.custom, output.name)
           THEN input.custom[output.name \o ".yaml"]
         ELSE IF ValidIn(input.builtin, output.name)
           THEN input.builtin[output.name \o ".yaml"]
         ELSE NullTemplate
  /\ output.of = "listTemplates" =>
       {[name |-> output.templates[i].name, builtin |-> output.templates[i].builtin] :
          i \in 1..Len(output.templates)}
         = {[name |-> n, builtin |-> TRUE] : n \in {m \in TemplateNames : ValidIn(input.builtin, m)}}
           \cup {[name |-> n, builtin |-> FALSE] : n \in {m \in TemplateNames : ValidIn(input.custom, m)}}

\* node looked up with a valid custom node.yaml over a valid built-in one
C24_Witness ==
  /\ output.of = "getTemplate"
  /\ output.name = "node"
  /\ ValidIn(input.custom, "node")
  /\ ValidIn(input.builtin, "node")
  /\ output.template.from = "custom"

(* =================== the resource limits of a create =================== *)
\* --memory and --cpu of one create, through createCommand and through the
\* two createSandbox.  cpu is in tenths of a core and NanoCpus in millions,
\* so that cpu * 1000000000 is cpu * NanoPerTenth; a number of bytes is kept
\* as value * 1024^power, beyond the range of the integers here.
MaxMemoryLen == 3
NanoPerTenth == 100
MaxCpu == 320
MinCpu == 10

MemoryChars == {"0", "1", "2", "K", "g", "B", " "}

RECURSIVE Strings(_)
Strings(n) ==
  IF n = 0 THEN {""}
  ELSE Strings(n - 1) \cup {s \o c : s \in Strings(n - 1), c \in MemoryChars}

MemoryStrings == Strings(MaxMemoryLen) \cup {"invalid"}
Cpus == {-10, 0, 5, 10, 20, 320, 330}

DigitChars == <<"0", "1", "2", "3", "4", "5", "6", "7", "8", "9">>
IsDigits(s) ==
  Len(s) > 0 /\ \A i \in 1..Len(s) : \E d \in 1..10 : SubSeq(s, i, i) = DigitChars[d]

toUpperCase(c) ==
  IF c = "k" THEN "K" ELSE IF c = "m" THEN "M"
  ELSE IF c = "g" THEN "G" ELSE IF c = "t" THEN "T" ELSE c

NoMatch == [matched |-> FALSE, digits |-> "", unit |-> ""]

\* memoryStr.match(/^(\d+)([KMGT]?)$/i)
matchMemory(s) ==
  IF IsDigits(s) THEN [matched |-> TRUE, digits |-> s, unit |-> ""]
  ELSE IF Len(s) >= 2
            /\ toUpperCase(SubSeq(s, Len(s), Len(s))) \in {"K", "M", "G", "T"}
            /\ IsDigits(SubSeq(s, 1, Len(s) - 1))
    THEN [matched |-> TRUE, digits |-> SubSeq(s, 1, Len(s) - 1),
          unit |-> SubSeq(s, Len(s), Len(s))]
  ELSE NoMatch

RECURSIVE parseInt(_)
parseInt(s) ==
  IF s = "" THEN 0
  ELSE parseInt(SubSeq(s, 1, Len(s) - 1)) * 10
         + (CHOOSE d \in 0..9 : DigitChars[d + 1] = SubSeq(s, Len(s), Len(s)))

Bytes(value, power) == [value |-> value, power |-> power]
NoBytes == Bytes(0, 0)

toBytes(value, unit) ==
  IF unit = "K" THEN Bytes(value, 1)
  ELSE IF unit = "M" THEN Bytes(value, 2)
  ELSE IF unit = "G" THEN Bytes(value, 3)
  ELSE IF unit = "T" THEN Bytes(value, 4)
  ELSE Bytes(value, 0)

\* the parseMemory that throws
parseMemory(memoryStr) ==
  LET match == matchMemory(memoryStr) IN
  IF ~match.matched THEN [ok |-> FALSE, error |-> "Invalid memory format", data |-> NoBytes]
  ELSE [ok |-> TRUE, error |-> "none",
        data |-> toBytes(parseInt(match.digits), toUpperCase(match.unit))]

\* the parseMemory that returns a Result
parseMemoryR(memoryStr) ==
  LET match == matchMemory(memoryStr) IN
  IF memoryStr = "" \/ ~match.matched
    THEN [ok |-> FALSE, error |-> "INVALID_MEMORY_FORMAT", data |-> NoBytes]
  ELSE IF parseInt(match.digits) <= 0
    THEN [ok |-> FALSE, error |-> "INVALID_MEMORY_VALUE", data |-> NoBytes]
  ELSE [ok |-> TRUE, error |-> "none",
        data |-> toBytes(parseInt(match.digits), toUpperCase(match.unit))]

\* resources of sandboxConfigSchema: memory Joi.string().pattern(...), which
\* refuses the empty string, and cpu Joi.number().integer().min(1).max(32)
resourcesSchema(memory, cpu) ==
  /\ memory # ""
  /\ matchMemory(memory).matched
  /\ cpu % 10 = 0
  /\ cpu >= MinCpu
  /\ cpu <= MaxCpu

Created(via, error, built, made, memory, cpu) ==
  [of |-> "createSandbox", via |-> via, error |-> error, built |-> built,
   created |-> made, Memory |-> memory, NanoCpus |-> cpu]

\* createSandbox that throws: buildImage, then docker.createContainer with
\* Memory and NanoCpus computed in its argument; the runtime may refuse any
\* container
createResources(via, memory, cpu, dockerOk) ==
  LET m == parseMemory(memory) IN
  IF ~m.ok THEN Created(via, m.error, TRUE, FALSE, NoBytes, 0)
  ELSE IF ~dockerOk THEN Created(via, "docker", TRUE, FALSE, NoBytes, 0)
  ELSE Created(via, "none", TRUE, TRUE, m.data, cpu * NanoPerTenth)

\* createSandbox that returns a Result: validateSandboxConfig, then the
\* build, then parseMemory in createDockerContainer
createResourcesR(memory, cpu, dockerOk) ==
  IF ~resourcesSchema(memory, cpu)
    THEN Created("result", "VALIDATION_FAILED", FALSE, FALSE, NoBytes, 0)
  ELSE LET m == parseMemoryR(memory) IN
       IF ~m.ok THEN Created("result", m.error, TRUE, FALSE, NoBytes, 0)
       ELSE IF ~dockerOk
         THEN Created("result", "CONTAINER_CREATE_FAILED", TRUE, FALSE, NoBytes, 0)
       ELSE Created("result", "none", TRUE, TRUE, m.data, cpu * NanoPerTenth)

\* createCommand: memory: options.memory || '2G', cpu: options.cpu || 2
createCommandResources(memory, cpu, dockerOk) ==
  createResources("cli", IF memory = "" THEN "2G" ELSE memory,
                  IF cpu = 0 THEN 20 ELSE cpu, dockerOk)

InitResources ==
  /\ MainIdle
  /\ portRange = PortRange
  /\ ProxyIdle
  /\ ConcIdle
  /\ FileIdle
  /\ BrokerIdle
  /\ LifeIdle
  /\ \E memory \in MemoryStrings : \E cpu \in Cpus :
       input = [of |-> "resources", memory |-> memory, cpu |-> cpu]
  /\ output = NoOutput

\* dcsandbox create --memory <size> --cpu <cores>
CreateByCommand ==
  /\ \E dockerOk \in BOOLEAN :
       output' = createCommandResources(input.memory, input.cpu, dockerOk)
  /\ UNCHANGED <<input, pureFixed>>

\* a caller of createSandbox that throws
CreateByLibrary ==
  /\ \E dockerOk \in BOOLEAN :
       output' = createResources("library", input.memory, input.cpu, dockerOk)
  /\ UNCHANGED <<input, pureFixed>>

\* a caller of createSandbox that returns a Result
CreateByResult ==
  /\ \E dockerOk \in BOOLEAN :
       output' = createResourcesR(input.memory, input.cpu, dockerOk)
  /\ UNCHANGED <<input, pureFixed>>

NextResources ==
  \/ CreateByCommand
  \/ CreateByLibrary
  \/ CreateByResult

SpecResources == InitResources /\ [][NextResources]_vars

\* digits, then at most one of K M G T in either case, and a value above 0
AcceptableMemory(s) ==
  /\ \/ IsDigits(s)
     \/ Len(s) >= 2 /\ IsDigits(SubSeq(s, 1, Len(s) - 1))
          /\ SubSeq(s, Len(s), Len(s)) \in {"K", "M", "G", "T", "k", "m", "g", "t"}
  /\ \E i \in 1..Len(s) : \E d \in 2..10 : SubSeq(s, i, i) = DigitChars[d]

\* the create ended on an error about its configuration, not on a refusal
\* of the runtime
RefusedMemory ==
  output.error \in {"Invalid memory format", "INVALID_MEMORY_FORMAT",
                    "INVALID_MEMORY_VALUE", "VALIDATION_FAILED"}

\* C25: with a cpu of 1 or 32, create accepts a memory string exactly when it is digits optionally
\* followed by K, M, G or T in either case with a value above 0, and then
\* limits the container to value * 1024^k bytes, k by the unit
C25_MemoryAccepted ==
  (output.of = "createSandbox" /\ input.cpu \in {MinCpu, MaxCpu}) =>
    /\ ~RefusedMemory <=> AcceptableMemory(input.memory)
    /\ output.error = "none" =>
         output.Memory =
           LET s == input.memory
               unit == SubSeq(s, Len(s), Len(s))
           IN IF IsDigits(s) THEN Bytes(parseInt(s), 0)
              ELSE Bytes(parseInt(SubSeq(s, 1, Len(s) - 1)),
                         IF unit \in {"K", "k"} THEN 1
                         ELSE IF unit \in {"M", "m"} THEN 2
                         ELSE IF unit \in {"G", "g"} THEN 3 ELSE 4)

\* C26: create refuses cpu 0, -1 and anything above 32 cores before it
\* builds an image or creates a container, and gives an accepted cpu to the
\* container as cpu * 10^9 NanoCpus
C26_CpuValidated ==
  output.of = "createSandbox" =>
    /\ (input.cpu <= 0 \/ input.cpu > MaxCpu) =>
         output.error # "none" /\ ~output.built /\ ~output.created
    /\ output.created => output.NanoCpus = input.cpu * NanoPerTenth

(* ============================ dcsandbox cleanup ========================= *)
\* what can fail while one sandbox is removed: f in its stop, rmv in
\* container.remove, r in the removal of its directory
CleanupFaults ==
  {faults \in [Ids -> [f : {"none", "stopContainer", "saveStop"}, rmv : BOOLEAN,
                       r : RmOutcomes]] :
     \A id \in Ids : /\ faults[id].f \in StopFaultsIn(id)
                     /\ faults[id].rmv \in RemoveContainerOutcomes(id)
                     /\ faults[id].r \in RmOutcomesFor(id)}

\* the ids of a listing, in the order of fs.readdir
RECURSIVE Ascending(_)
Ascending(ids) ==
  IF ids = {} THEN <<>>
  ELSE <<MinOf(ids)>> \o Ascending(ids \ {MinOf(ids)})

Removal(s, removed, failed, tried) ==
  [s |-> s, removedCount |-> removed, failedCount |-> failed, tried |-> tried]

\* one pass of the for loop, for the sandbox as allSandboxes listed it
removeOne(acc, sandbox, id, fault) ==
  LET st == IF sandbox.status = "running"
              THEN stopSandbox(acc.s, id, fault.f)
              ELSE [s |-> acc.s, out |-> "ok"]
      rm == IF st.out = "ok"
              THEN removeSandbox(st.s, id, fault.f, fault.rmv, fault.r)
              ELSE st
  IN IF rm.out = "ok"
       THEN Removal(rm.s, acc.removedCount + 1, acc.failedCount, acc.tried \cup {id})
       ELSE Removal(rm.s, acc.removedCount, acc.failedCount + 1, acc.tried \cup {id})

\* the loop with its try around the whole of it instead of inside it
RECURSIVE removeAllOrStop(_, _, _, _)
removeAllOrStop(acc, todo, listed, faults) ==
  IF todo = <<>> THEN acc
  ELSE LET next == removeOne(acc, listed[Head(todo)], Head(todo), faults[Head(todo)])
       IN IF next.failedCount > acc.failedCount THEN next
          ELSE removeAllOrStop(next, Tail(todo), listed, faults)

RECURSIVE removeAll(_, _, _, _)
removeAll(acc, todo, listed, faults) ==
  IF todo = <<>> THEN acc
  ELSE removeAll(removeOne(acc, listed[Head(todo)], Head(todo), faults[Head(todo)]),
                 Tail(todo), listed, faults)

Cleaned(s, out, all, targets, done) ==
  [s |-> s, out |-> out, exit |-> "0",
   report |-> [of |-> "cleanup", all |-> all, targeted |-> targets,
               tried |-> done.tried, removedCount |-> done.removedCount,
               failedCount |-> done.failedCount]]

cleanupCommand(s, all, force, confirm, faults) ==
  LET s0 == newSandboxManager(s)
      allSandboxes == s0.records
      sandboxesToRemove ==
        IF all THEN DOMAIN allSandboxes
        ELSE {id \in DOMAIN allSandboxes :
                allSandboxes[id].status \in {"stopped", "error"}}
      nothing == Removal(s0, 0, 0, {})
  IN IF sandboxesToRemove = {} THEN Cleaned(s0, "NOTHING", all, {}, nothing)
     ELSE IF ~force /\ ~confirm
       THEN Cleaned(s0, "CANCELLED", all, sandboxesToRemove, nothing)
     ELSE LET done == removeAll(nothing, Ascending(sandboxesToRemove),
                                allSandboxes, faults)
          IN Cleaned(done.s, "ok", all, sandboxesToRemove, done)

\* dcsandbox cleanup [--all] [--force]
RunCleanupCommand ==
  \E all \in BOOLEAN, force \in BOOLEAN, faults \in CleanupFaults :
   \E confirm \in (IF force THEN {TRUE} ELSE BOOLEAN) :
    LET c == cleanupCommand(Store, all, force, confirm, faults) IN
      /\ records' = c.s.records
      /\ dirs' = c.s.dirs
      /\ containers' = c.s.containers
      /\ activePorts' = c.s.activePorts
      /\ proxies' = c.s.proxies
      /\ impl' = "throwing"
      /\ last' = [op |-> "cleanupCommand", id |-> 0, out |-> c.out, exit |-> c.exit]
      /\ output' = c.report
      /\ UNCHANGED <<input, portRange, proxyVars, concVars, fileVars, lifeVars, brokerVars>>

\* the store after each sandbox was created, and started where `made` says
\* running
RECURSIVE Made(_, _, _)
Made(s, ids, made) ==
  IF ids = <<>> THEN s
  ELSE LET id == Head(ids)
           c == createSandbox(s, id, "s1", "none").s
       IN Made(IF made[id] = "absent" THEN s
               ELSE IF made[id] = "stopped" THEN c
               ELSE startSandbox(c, id, "none").s,
               Tail(ids), made)

InitCleanup ==
  /\ portRange = PortRange
  /\ \E made \in [Ids -> {"absent", "stopped", "running"}] :
       LET s == Made(newSandboxManager(EmptyStore), Ascending(Ids), made) IN
         /\ records = s.records
         /\ dirs = s.dirs
         /\ containers = s.containers
         /\ activePorts = s.activePorts
         /\ proxies = s.proxies
  /\ impl = "throwing"
  /\ last = [op |-> "init", id |-> 0, out |-> "ok", exit |-> "-"]
  /\ ProxyIdle
  /\ ConcIdle
  /\ FileIdle
  /\ BrokerIdle
  /\ LifeIdle
  /\ PureIdle

NextCleanup == RunCleanupCommand

SpecCleanup == InitCleanup /\ [][NextCleanup]_vars

CreateOps == {"createSandbox", "createCommand"}

\* C28: a create that fails leaves no container of its sandbox in the
\* runtime
C28_FailedCreateRemovesContainer ==
  [][\A id \in Ids :
       (StepOf(CreateOps, id) /\ last'.out # "ok" /\ containers[id] = "none")
         => containers'[id] = "none"]_vars

\* C29: a stopSandbox whose container.stop fails returns an error result
\* instead of throwing, and leaves the running record, its mcpPort and the
\* held ports as they were
C29_FailedStopReturnsError ==
  [][\A id \in Ids :
       (StepOf(StopOps, id) /\ Running(id) /\ records[id].mcpPort # NoPort
          /\ last'.out \in {"RUNTIME_ERROR", "STOP_FAILED"}
          /\ containers' = containers)
         => /\ impl' = "result"
            /\ records' = records
            /\ activePorts' = activePorts]_vars

\* C30: create writes the record before it makes anything else, so that a
\* sandbox directory or a container it made always has its record
C30_RecordBeforeArtefacts ==
  [][\A id \in Ids :
       (StepOf(CreateOps, id) /\ (id \in dirs' \/ containers'[id] # "none"))
         => id \in DOMAIN records']_vars

(* ==================== the first frame of a connection ================== *)
\* C31: the frame sent when a connection is accepted is the initialized
\* notification, without id, and a response is sent only on a connection
\* that is open, that is, after that notification
C31_InitializedFirst ==
  [][\A c \in Conns :
       /\ (c \notin wsOpen /\ c \in wsOpen')
            => sent'[c].kind = "notification" /\ sent'[c].id = NoId
       /\ (sent'[c] # sent[c] /\ sent'[c].kind \in {"result", "error"})
            => c \in wsOpen]_vars

\* a response on a connection, which was opened before
C31_Witness ==
  \E c \in wsOpen : sent[c].kind = "result" /\ frame[c].method = "tools/list"

(* ===================== the port a start obtains ======================= *)
\* the ports that the running records other than id carry
PortsOfOthers(id) ==
  {records[j].mcpPort : j \in {k \in DOMAIN records \ {id} : Running(k)}}

\* C32: when the held ports are exactly those of the running sandboxes, a
\* create or start that brings a sandbox to running obtains the lowest port
\* of the range that is not held: the range minimum when none is held, and
\* the port a stop released when all lower ports are still held
C32_LowestFreePort ==
  [][\A id \in Ids :
       (StepOf({"createCommand", "startSandbox"}, id) /\ last'.out = "ok"
          /\ ~Running(id) /\ activePorts = PortsOfOthers(id)
          /\ PortRange \ PortsOfOthers(id) # {})
         => /\ id \in DOMAIN records'
            /\ records'[id].mcpPort = MinOf(PortRange \ PortsOfOthers(id))]_vars

(* =================== the listener of a stopped sandbox ================= *)
\* C33: after a stop or a remove of a sandbox has completed, the manager
\* holds no listener for it and its port is released, and after every step a
\* listener exists only for a sandbox whose record is running
C33_StopStopsBroker ==
  [][/\ \A id \in Ids :
          (StepOf(StopOps \cup RemoveOps, id) /\ last'.out = "ok" /\ Running(id))
            => id \notin proxies' /\ records[id].mcpPort \notin activePorts'
     /\ \A id \in proxies' :
          id \in DOMAIN records' /\ records'[id].status = "running"]_vars

(* ============== MCPProxy: proxy instances and their children =========== *)
\* the enabled server configurations handed to one startProxy, by name
MaxConfigs == 2
Configs == UNION {[1..n -> ServerNames] : n \in 0..MaxConfigs}
Unused(objects) == {o \in DOMAIN objects : objects[o].state \in {"unmade", "unborn"}}
brokerFixed == <<mainVars, portRange, proxyVars, concVars, fileVars, lifeVars, pureVars>>

\* childProcess.on('exit'): the entry under the child's name is deleted,
\* whichever child it holds
onExit(insts, kid) ==
  [insts EXCEPT ![kid.inst].mcpServers[kid.name] = NoChild]

\* startMCPServer for configs[j..]: spawn, then mcpServers.set(config.name, ..)
RECURSIVE startMCPServers(_, _, _, _, _, _)
startMCPServers(b, i, configs, handles, j, k) ==
  IF j > Len(configs) THEN b
  ELSE startMCPServers(
         [instances |-> [b.instances EXCEPT ![i].mcpServers[configs[j]] = k],
          children |-> [b.children EXCEPT ![k] =
                          [state |-> "alive", name |-> configs[j], inst |-> i,
                           signal |-> "none", handlesTerm |-> handles[j]]]],
         i, configs, handles, j + 1, k + 1)

\* new WebSocketServer({ port }): the bind fails, reported by the 'error'
\* event, when a listener of this process already has the port
wssFor(insts, port) ==
  IF \E o \in DOMAIN insts : insts[o].wss = "listening" /\ insts[o].port = port
    THEN "unbound" ELSE "listening"

\* MCPProxy.startProxy: new MCPProxyInstance, start(), proxies.set
StartProxy ==
  \E sandboxId \in Ids, port \in PortRange, configs \in Configs,
     handles \in [1..MaxConfigs -> BOOLEAN] :
    /\ Unused(instances) # {}
    /\ Cardinality(Unused(children)) >= Len(configs)
    /\ LET i == MinOf(Unused(instances))
           k == IF Unused(children) = {} THEN MaxKids + 1
                ELSE MinOf(Unused(children))
           made == [instances EXCEPT ![i] =
                      [Unmade EXCEPT !.state = "made", !.sandboxId = sandboxId,
                                     !.port = port]]
           b == startMCPServers([instances |-> made, children |-> children],
                                i, configs, handles, 1, k)
       IN /\ instances' = [b.instances EXCEPT
                             ![i].state = "started",
                             ![i].wss = wssFor(instances, port)]
          /\ children' = b.children
          /\ mcpProxies' = [mcpProxies EXCEPT ![sandboxId] = i]
    /\ UNCHANGED brokerFixed

\* process.kill(): SIGTERM to a child that has not exited
kill(kids, targets) ==
  [k \in DOMAIN kids |->
     IF k \in targets /\ kids[k].state = "alive"
       THEN [kids[k] EXCEPT !.signal = "SIGTERM"] ELSE kids[k]]

\* MCPProxyInstance.stop: close the listener, kill the children the table
\* holds, clear the table
stop(b, i) ==
  LET held == {b.instances[i].mcpServers[n] : n \in ServerNames} \ {NoChild} IN
  [instances |-> [b.instances EXCEPT ![i].state = "stopped", ![i].wss = "null",
                    ![i].mcpServers = [n \in ServerNames |-> NoChild]],
   children |-> kill(b.children, held)]

\* MCPProxy.stopProxy
StopProxy ==
  \E sandboxId \in Ids :
    /\ mcpProxies[sandboxId] # NoInst
    /\ LET b == stop([instances |-> instances, children |-> children],
                     mcpProxies[sandboxId])
       IN /\ instances' = b.instances
          /\ children' = b.children
    /\ mcpProxies' = [mcpProxies EXCEPT ![sandboxId] = NoInst]
    /\ UNCHANGED brokerFixed

\* a child ends: it was sent SIGTERM and does not handle it
Terminates(k) ==
  /\ children[k].state = "alive"
  /\ children[k].signal = "SIGTERM"
  /\ ~children[k].handlesTerm
  /\ children' = [children EXCEPT ![k].state = "exited"]
  /\ instances' = onExit(instances, children[k])
  /\ UNCHANGED <<mcpProxies, brokerFixed>>

\* a child ends of its own accord
ChildExits(k) ==
  /\ children[k].state = "alive"
  /\ children[k].signal = "none"
  /\ children' = [children EXCEPT ![k].state = "exited"]
  /\ instances' = onExit(instances, children[k])
  /\ UNCHANGED <<mcpProxies, brokerFixed>>

InitBroker ==
  /\ MainIdle
  /\ portRange = PortRange
  /\ ProxyIdle
  /\ ConcIdle
  /\ FileIdle
  /\ LifeIdle
  /\ PureIdle
  /\ BrokerIdle

NextBroker ==
  \/ StartProxy
  \/ StopProxy
  \/ \E k \in Kids : Terminates(k)
  \/ \E k \in Kids : ChildExits(k)

SpecBroker ==
  InitBroker /\ [][NextBroker]_vars /\ \A k \in Kids : WF_vars(Terminates(k))

\* the instance that spawned child k has been stopped
StoppedWith(k) ==
  /\ children[k].state # "unborn"
  /\ instances[children[k].inst].state = "stopped"

\* C34: once the proxy instance of a sandbox has been stopped, every child
\* it spawned eventually terminates
C34_ChildrenTerminate ==
  \A k \in Kids : StoppedWith(k) ~> (children[k].state = "exited")

(* ================= the detection that detectProject returns ============ *)
\* the detectors array of detectProject, applied to one repository: the
\* detectors for javascript, python, go, rust, java, ruby, php and dotnet
Detectors(files, pkg) ==
  <<detectNodeJS(files, pkg), detectPython(files), detectGo(files),
    detectRust(files), detectJava(files), detectRuby(files),
    detectPHP(files), detectDotNet(files)>>
\* the detectors whose confidence is above 0
Positive(all) == {i \in DOMAIN all : all[i].confidence > 0}
Highest(all, i) ==
  /\ i \in Positive(all)
  /\ \A j \in Positive(all) : all[j].confidence <= all[i].confidence

\* C35: detectProject returns the result of the detector with the highest
\* confidence, of several with that confidence the earliest in the order
\* javascript, python, go, rust, java, ruby, php, dotnet, and language
\* unknown with template base and confidence 0 when none is above 0
C35_HighestConfidenceFirst ==
  (output.of = "create" /\ output.detected)
    => LET all == Detectors(input.files, input.pkg) IN
       IF Positive(all) = {}
            THEN output.detection
                   = [language |-> "unknown", template |-> "base", confidence |-> 0]
            ELSE \E i \in DOMAIN all :
                   /\ Highest(all, i)
                   /\ \A j \in 1..(i - 1) : ~Highest(all, j)
                   /\ output.detection = all[i]

\* two detectors share the highest confidence and the earlier one is returned
C35_Witness ==
  /\ output.of = "create"
  /\ output.detected
  /\ LET all == Detectors(input.files, input.pkg) IN
     \E i, j \in DOMAIN all :
       /\ i < j
       /\ Highest(all, i)
       /\ Highest(all, j)
       /\ output.detection = all[i]

(* ================== what start and stop leave unchanged ================ *)
\* the fields of a record other than status and mcpPort
Rest(config) == [config EXCEPT !.status = "none", !.mcpPort = NoPort]

\* C36: a start or a stop of a sandbox changes only status and mcpPort of
\* its record: the other fields of the record are the same before and after,
\* no record of another sandbox is modified, and no record appears or
\* disappears
C36_StartStopFrame ==
  [][\A id \in Ids :
       StepOf(StartOps \cup StopOps \cup {"stopCommand"}, id)
         => /\ DOMAIN records' = DOMAIN records
            /\ \A j \in DOMAIN records :
                 IF j = id THEN Rest(records'[j]) = Rest(records[j])
                 ELSE records'[j] = records[j]]_vars

\* a start has changed the record of one sandbox while another has a record
C36_Witness ==
  /\ last.op = "startSandbox"
  /\ last.out = "ok"
  /\ Running(last.id)
  /\ records[last.id].name # NullConfig.name
  /\ DOMAIN records = Ids

(* ============ starts of different sandboxes on one manager ============= *)
\* the sandbox each caller starts
SandboxOf(p) == IF p = "p" THEN 1 ELSE MaxIds
BothStopped ==
  createSandbox(createSandbox(EmptyStore, 1, "s1", "none").s, MaxIds, "S1", "none").s
\* the stores the callers can find: each sandbox stopped or running
ParallelStores ==
  {BothStopped, startSandbox(BothStopped, 1, "none").s,
   startSandbox(BothStopped, MaxIds, "none").s,
   startSandbox(startSandbox(BothStopped, 1, "none").s, MaxIds, "none").s}

\* const config = await this.getSandbox(sandboxId)
StartGetSandbox ==
  \E p \in Procs :
    /\ step[p] = "getSandbox"
    /\ LET g == getSandbox(Store, SandboxOf(p)) IN
         /\ loc' = [loc EXCEPT ![p].config = g.config]
         /\ IF ~g.found \/ g.config.containerId = NoContainer
              THEN Finish(p, "NOT_FOUND")
              ELSE Goto(p, "container.start")
    /\ UNCHANGED <<records, dirs, containers, activePorts, concFixed>>

\* await container.start()
StartContainerStart ==
  \E p \in Procs, rt \in BOOLEAN :
    /\ step[p] = "container.start"
    /\ LET c == dockerStart(containers, loc[p].config.containerId, rt) IN
         /\ containers' = c.cs
         /\ IF c.ok THEN Goto(p, "allocatePort") ELSE Finish(p, "RUNTIME_ERROR")
    /\ UNCHANGED <<records, dirs, activePorts, loc, concFixed>>

\* an allocation whose caller resumes with the port that was found free
\* while the insertion into activePorts has not been made
StartAllocatePortCheckOnly ==
  \E p \in Procs :
    /\ step[p] = "allocatePort"
    /\ LET a == allocatePort(activePorts) IN
         /\ loc' = [loc EXCEPT ![p].port = a.port]
         /\ IF a.ok THEN Goto(p, "saveSandboxConfig") ELSE Finish(p, "PORT_EXHAUSTED")
    /\ UNCHANGED <<activePorts, records, dirs, containers, concFixed>>

\* const mcpPort = await this.mcpProxy.allocatePort(): the call runs to its
\* return without an await, the caller resumes afterwards
StartAllocatePort ==
  \E p \in Procs :
    /\ step[p] = "allocatePort"
    /\ LET a == allocatePort(activePorts) IN
         /\ activePorts' = a.ports
         /\ loc' = [loc EXCEPT ![p].port = a.port]
         /\ IF a.ok THEN Goto(p, "saveSandboxConfig") ELSE Finish(p, "PORT_EXHAUSTED")
    /\ UNCHANGED <<records, dirs, containers, concFixed>>

\* await this.saveSandboxConfig(updatedConfig)
StartSave ==
  \E p \in Procs, wok \in BOOLEAN :
    /\ step[p] = "saveSandboxConfig"
    /\ LET updatedConfig == runningConfig(loc[p].config, loc[p].port)
           w == saveSandboxConfig(Store, SandboxOf(p), updatedConfig, wok) IN
         /\ records' = w.s.records
         /\ Finish(p, IF w.ok THEN "ok" ELSE "IO_ERROR")
    /\ UNCHANGED <<dirs, containers, activePorts, loc, concFixed>>

InitParallel ==
  /\ impl = "throwing"
  /\ portRange = PortRange
  /\ origin \in ParallelStores
  /\ records = origin.records
  /\ dirs = origin.dirs
  /\ containers = origin.containers
  /\ activePorts = origin.activePorts
  /\ proxies = origin.proxies
  /\ last = [op |-> "init", id |-> 0, out |-> "ok", exit |-> "-"]
  /\ call = [p \in Procs |-> "start"]
  /\ step = [p \in Procs |-> "getSandbox"]
  /\ loc = [p \in Procs |-> NoLocals]
  /\ ret = [p \in Procs |-> "-"]
  /\ ProxyIdle
  /\ FileIdle
  /\ BrokerIdle
  /\ LifeIdle
  /\ PureIdle

NextParallel ==
  \/ StartGetSandbox
  \/ StartContainerStart
  \/ StartAllocatePort
  \/ StartSave

SpecParallel == InitParallel /\ [][NextParallel]_vars

\* the calls that have been handed a port by allocatePort
Allocated == {p \in Procs : loc[p].port # NoPort}

\* C37: the allocatePort calls of concurrent callers never return the same
\* port: the port a call returns was free when the call ran and is held when
\* the next caller runs, and no two callers are handed the same port
C37_ConcurrentAllocations ==
  [][/\ \A p \in Allocated' \ Allocated :
          /\ loc'[p].port \notin activePorts
          /\ activePorts' = activePorts \cup {loc'[p].port}
     /\ \A p, q \in Allocated' : p # q => loc'[p].port # loc'[q].port]_vars

\* two concurrent starts, of different sandboxes, have each been handed a port
C37_Witness ==
  /\ Allocated = Procs
  /\ \A p \in Procs : call[p] = "start" /\ loc[p].config.containerId = SandboxOf(p)

(* ======================== ports without an owner ======================= *)
\* the running records that carry the port
Owners(port) == {id \in DOMAIN records : Running(id) /\ records[id].mcpPort = port}

\* the operations that are a whole CLI process, whose manager ends with them
CommandOps ==
  {"createCommand", "stopCommand", "removeCommand", "removeCommandForce",
   "cleanupCommand"}

\* C38: after every operation of a manager that lives on, each port the
\* manager holds is the mcpPort of exactly one running record
C38_NoPortLeak ==
  last.op \notin CommandOps
    => \A port \in activePorts : Cardinality(Owners(port)) = 1

(* ================= what the broker's tables still hold ================= *)
\* the live children that no mcpServers table holds, and the listening
\* instances that MCPProxy.proxies does not hold
Untracked ==
  {k \in Kids : /\ children[k].state = "alive"
                /\ children[k].signal = "none"
                /\ instances[children[k].inst].state = "started"
                /\ instances[children[k].inst].mcpServers[children[k].name] # k}
Unlisted ==
  {i \in Insts : /\ instances[i].state = "started"
                 /\ mcpProxies[instances[i].sandboxId] # i}

\* C39: every child that has neither exited nor been stopped is in the
\* mcpServers table of its instance, and every started instance that has not
\* been stopped is the entry of its sandbox in MCPProxy.proxies, so that
\* stopProxy reaches all of them
C39_TablesHoldTheLiving ==
  Untracked = {} /\ Unlisted = {}

(* ============== the templates that a detection can select ============== *)
\* the keys of getBuiltinTemplateDefinitions
BuiltinDefinitions ==
  {"base", "node", "python", "go", "rust", "react", "django", "fullstack"}

\* C40: a template that create takes from a detection, the confidence being
\* accepted, is one of the built-in templates, so that the getTemplate which
\* follows the clone finds it
C40_DetectedTemplateIsBuiltin ==
  (output.of = "create" /\ output.detected
     /\ output.template = output.detection.template
     /\ output.detection.confidence > Threshold)
    => output.template \in BuiltinDefinitions
====
